---------------------------- MODULE Spec2Model ----------------------------
(***************************************************************************)
(* A model of the spreadsheet-corpus analyzers of scripts/:                *)
(*   phased_analyzer_v3.py  the phased pipeline (scan, column merge,       *)
(*                          clustering and classification, deep profiling  *)
(*                          with infer_dtype and the quality flags,        *)
(*                          relationships, redundancy, deliverables),      *)
(*   clean_report.py        the post-processing of its deliverables,       *)
(*   analyze_spreadsheets.py  the stand-alone helpers (jaccard,            *)
(*                          normalize_col, header detection, patterns)     *)
(*                          and the clustering of the files in main,       *)
(*   phased_analyzer.py     its jaccard.                                   *)
(*                                                                         *)
(* Text is a sequence of one-character strings, so "id" is <<"i","d">>.    *)
(* An empty cell (None / NaN) is the empty sequence <<>>.                  *)
(* A Python dict is a sequence of records in insertion order.              *)
(* A sheet key f"{file}|{sheet}" is the pair <<file, sheet>>: file paths   *)
(* hold no "|", so the key determines both parts.                          *)
(* A percentage rounded to one decimal is an integer number of tenths:     *)
(* 70.0 is 700.                                                            *)
(***************************************************************************)
EXTENDS Integers, Sequences, FiniteSets, TLC

(***************************************************************************)
(* Characters and text                                                     *)
(***************************************************************************)

LowerChars == <<"a","b","c","d","e","f","g","h","i","j","k","l","m",
                "n","o","p","q","r","s","t","u","v","w","x","y","z">>

UpperChars == <<"A","B","C","D","E","F","G","H","I","J","K","L","M",
                "N","O","P","Q","R","S","T","U","V","W","X","Y","Z">>

DigitChars == <<"0","1","2","3","4","5","6","7","8","9">>

\* The characters of the model in code-point order (32, 35, 46, 48..57, 58,
\* 65..90, 95, 97..122); Ord gives a character's rank in it.
AsciiOrder == <<" ", "#", ".">> \o DigitChars \o <<":">> \o UpperChars
              \o <<"_">> \o LowerChars

Range(s) == {s[i] : i \in 1..Len(s)}

Ord == [c \in Range(AsciiOrder) |->
          CHOOSE i \in 1..Len(AsciiOrder) : AsciiOrder[i] = c]

\* str.lower() on one character.
LowerOf == [c \in Range(AsciiOrder) |->
              IF c \in Range(UpperChars)
              THEN LowerChars[CHOOSE i \in 1..Len(UpperChars) : UpperChars[i] = c]
              ELSE c]

ToLower(s) == [i \in 1..Len(s) |-> LowerOf[s[i]]]

\* The regex class [a-z0-9].
IsAlnum(c) == c \in Range(LowerChars) \cup Range(DigitChars)

Min(a, b) == IF a <= b THEN a ELSE b
Max(a, b) == IF a >= b THEN a ELSE b

\* F applied to the value of e, with e evaluated once.
Bind(e, F(_)) == CHOOSE r \in {F(x) : x \in {e}} : TRUE

\* acc after "for i in range(lo, hi + 1): acc = Body(i, acc)"; the range is
\* halved so that the evaluation nests only as deep as its logarithm.
RECURSIVE Loop(_, _, _, _)
Loop(Body(_, _), lo, hi, acc) ==
  IF lo > hi THEN acc
  ELSE IF lo = hi THEN Body(lo, acc)
  ELSE Bind((lo + hi) \div 2, LAMBDA mid :
         Bind(Loop(Body, lo, mid, acc), LAMBDA half : Loop(Body, mid + 1, hi, half)))

\* s[lo-1:hi] of Python, 1-based and inclusive here; empty when lo > hi.
Slice(s, lo, hi) == [i \in 1..Max(0, hi - lo + 1) |-> s[lo + i - 1]]

\* str.strip(chars): drop the leading and trailing characters that are in cs.
StripChars(s, cs) ==
  LET keep == {i \in 1..Len(s) : s[i] \notin cs}
  IN  IF keep = {} THEN <<>>
      ELSE Slice(s, CHOOSE i \in keep : \A j \in keep : i <= j,
                    CHOOSE i \in keep : \A j \in keep : i >= j)

\* re.sub(r"[^a-z0-9]+", "_", s): every maximal run of characters outside
\* [a-z0-9] becomes one underscore.
RECURSIVE SubNonAlnum(_)
SubNonAlnum(s) ==
  IF s = <<>> THEN <<>>
  ELSE IF IsAlnum(Head(s)) THEN <<Head(s)>> \o SubNonAlnum(Tail(s))
  ELSE LET rest == Tail(s)
           next == {i \in 1..Len(rest) : IsAlnum(rest[i])}
       IN  IF next = {} THEN <<"_">>
           ELSE <<"_">> \o SubNonAlnum(
                  Slice(rest, CHOOSE i \in next : \A j \in next : i <= j, Len(rest)))

\* normalize_col with strip("_") applied before the substitution instead of
\* after it.
normalize_col_strip_first(name) ==
  SubNonAlnum(StripChars(StripChars(ToLower(name), {" "}), {"_"}))

normalize_col(name) ==
  StripChars(SubNonAlnum(StripChars(ToLower(name), {" "})), {"_"})

\* re.sub(r"\s+", "_", s): every maximal run of blanks becomes one underscore.
RECURSIVE SubSpaces(_)
SubSpaces(s) ==
  IF s = <<>> THEN <<>>
  ELSE IF Head(s) # " " THEN <<Head(s)>> \o SubSpaces(Tail(s))
  ELSE LET rest == Tail(s)
           next == {i \in 1..Len(rest) : rest[i] # " "}
       IN  IF next = {} THEN <<"_">>
           ELSE <<"_">> \o SubSpaces(
                  Slice(rest, CHOOSE i \in next : \A j \in next : i <= j, Len(rest)))

\* normalize_col of analyze_spreadsheets: blanks become underscores, every
\* other character outside [a-z0-9_] is dropped, nothing left is "unnamed".
as_normalize_col(name) ==
  LET s == SelectSeq(SubSpaces(ToLower(StripChars(name, {" "}))),
                     LAMBDA c : IsAlnum(c) \/ c = "_")
  IN  IF s = <<>> THEN <<"u","n","n","a","m","e","d">> ELSE s

\* safe_str: None becomes "", text is stripped of surrounding blanks.
safe_str(v) == StripChars(v, {" "})

\* Lexicographic order of two texts by code point (Python's str <).
RECURSIVE StrLess(_, _)
StrLess(a, b) ==
  IF b = <<>> THEN FALSE
  ELSE IF a = <<>> THEN TRUE
  ELSE IF Head(a) = Head(b) THEN StrLess(Tail(a), Tail(b))
  ELSE Ord[Head(a)] < Ord[Head(b)]

\* sorted(S) for a set of texts: the k-th has k-1 texts below it.
SortedStrs(S) ==
  [k \in 1..Cardinality(S) |->
     CHOOSE x \in S : Cardinality({y \in S : StrLess(y, x)}) = k - 1]

\* str(n) for a natural number.
RECURSIVE DecStr(_)
DecStr(n) == IF n < 10 THEN <<DigitChars[n + 1]>>
             ELSE DecStr(n \div 10) \o <<DigitChars[(n % 10) + 1]>>

(***************************************************************************)
(* difflib.SequenceMatcher(None, a, b).ratio()                             *)
(***************************************************************************)

\* The length of the common run of a from i and b from j inside the windows.
RECURSIVE RunLen(_, _, _, _, _, _)
RunLen(a, b, i, j, ahi, bhi) ==
  IF i <= ahi /\ j <= bhi /\ a[i] = b[j]
  THEN 1 + RunLen(a, b, i + 1, j + 1, ahi, bhi)
  ELSE 0

\* find_longest_match: the longest block, of those the earliest in a, of
\* those the earliest in b; <<i, j, k>> with k = 0 when nothing matches.
LongestMatch(a, b, alo, ahi, blo, bhi) ==
  Bind({<<i, j, RunLen(a, b, i, j, ahi, bhi)>> : i \in alo..ahi, j \in blo..bhi},
       LAMBDA cand :
         IF cand = {} THEN <<alo, blo, 0>>
         ELSE CHOOSE c \in cand : \A d \in cand :
                \/ c[3] > d[3]
                \/ c[3] = d[3] /\ c[1] < d[1]
                \/ c[3] = d[3] /\ c[1] = d[1] /\ c[2] <= d[2])

\* The total size of get_matching_blocks(): the longest match, then the
\* same to its left and to its right.
RECURSIVE MatchSize(_, _, _, _, _, _)
MatchSize(a, b, alo, ahi, blo, bhi) ==
  Bind(LongestMatch(a, b, alo, ahi, blo, bhi),
       LAMBDA m :
         IF m[3] = 0 THEN 0
         ELSE m[3] + MatchSize(a, b, alo, m[1] - 1, blo, m[2] - 1)
                   + MatchSize(a, b, m[1] + m[3], ahi, m[2] + m[3], bhi))

\* ratio() = 2*M / T as the pair <<2*M, T>>; two empty texts give 1.0.
SeqRatio(a, b) ==
  LET T == Len(a) + Len(b)
  IN  IF T = 0 THEN <<1, 1>> ELSE <<2 * MatchSize(a, b, 1, Len(a), 1, Len(b)), T>>


(***************************************************************************)
(* Configuration of phased_analyzer_v3                                     *)
(***************************************************************************)

DEEP_ROWS == 1000
MAX_PROFILE_COLS == 200
\* COL_SIM_THRESH = 0.80 and CLUSTER_OVERLAP = 0.40, in hundredths.
COL_SIM_THRESH == 80
CLUSTER_OVERLAP == 40
\* The literals of the script: is_wide is len(headers) > 300, the sheet-name
\* pass keeps a sibling at Jaccard >= 0.30, a PK candidate has uniqueness
\* > 70 (percent), the fingerprint keeps the first 30 sorted names.
WIDE_COLS == 300
SHEET_NAME_OVERLAP == 30
PK_UNIQ_PCT == 70
FP_NAMES == 30
\* clean_report pairs the first three high with the first three low locations.
CR_PAIR_CAP == 3

VARIABLES
  disk,            \* the files under ROOT, in path order (all_files after sort)
  pc,              \* the position of the script
  idx,             \* the loop index of the phase at pc
  phase1,          \* list of sheet records
  errors_log,      \* list of containment messages
  norm_keys,       \* the keys of col_freq in insertion order
  col_freq,        \* Counter: normalized name -> occurrences
  merged,          \* dict alias -> canonical
  canonical_freq,  \* Counter: canonical name -> occurrences
  sheet_colsets,   \* dict key -> set of canonical names (insertion order = phase1)
  assigned,        \* dict key -> cluster id
  clusters,        \* dict cid -> members, union_cols, via, label, confidence (as a sequence, cid = index)
  deep_profiles,   \* list of column profiles
  quality_issues,  \* list of quality flags
  col_sheet_map,   \* dict norm_col -> list of (file, sheet, uniqueness_pct)
  pk_candidates,   \* list of (norm_col, high)
  fk_pairs,        \* list of FK candidate edges
  join_clusters,   \* dict norm_col -> set of files
  sheet_fps,       \* dict fingerprint -> list of keys
  redundant,       \* the fingerprint groups with more than one member
  data_dictionary, \* the rows written to data_dictionary.csv
  cr_pk_candidates,\* clean_report: list of (norm_col, high)
  cr_fk_pairs,     \* clean_report: list of FK candidate edges
  cr_join_cols,    \* clean_report: dict norm_col -> set of files
  written,         \* the deliverables written: file names and the errors count
  call             \* a direct call of a helper: its arguments and results

vars == <<disk, pc, idx, phase1, errors_log, norm_keys, col_freq, merged,
          canonical_freq, sheet_colsets, assigned, clusters, deep_profiles,
          quality_issues, col_sheet_map, pk_candidates, fk_pairs, join_clusters,
          sheet_fps, redundant, data_dictionary, cr_pk_candidates, cr_fk_pairs,
          cr_join_cols, written, call>>

phase2_vars == <<norm_keys, col_freq, merged, canonical_freq>>
phase3_vars == <<sheet_colsets, assigned, clusters>>
relate_vars == <<col_sheet_map, pk_candidates, fk_pairs, join_clusters>>
fp_vars     == <<sheet_fps, redundant>>
report_vars == <<data_dictionary, cr_pk_candidates, cr_fk_pairs, cr_join_cols, written>>

\* Nothing written yet.
NotWritten == [files |-> {}, errors_skipped |-> 0]

(***************************************************************************)
(* Sequences as Python lists                                               *)
(***************************************************************************)

\* The position of the first occurrence of x in s, 0 when absent.
IndexOf(s, x) ==
  IF x \in Range(s) THEN CHOOSE i \in 1..Len(s) : s[i] = x /\ \A j \in 1..(i-1) : s[j] # x
  ELSE 0

\* The elements of s in order, each kept at its first occurrence only
\* (the key order of a dict filled from s).
Distinct(s) ==
  Bind(s, LAMBDA v :
    Bind({i \in 1..Len(v) : \A j \in 1..(i-1) : v[j] # v[i]}, LAMBDA firsts :
      [k \in 1..Cardinality(firsts) |->
         v[CHOOSE i \in firsts : Cardinality({j \in firsts : j < i}) = k - 1]]))

\* [f(x) for x in s if p(x)] is SelectSeq and a function over 1..Len(s).
Flatten(ss) ==
  Bind(ss, LAMBDA v : Loop(LAMBDA i, acc : acc \o v[i], 1, Len(v), <<>>))

\* s[:n]
Take(s, n) == SubSeq(s, 1, Min(n, Len(s)))

(***************************************************************************)
(* What pandas makes of a header row (read_csv, read_excel)                *)
(***************************************************************************)

UnnamedLabel(i) == <<"U","n","n","a","m","e","d",":"," ">> \o DecStr(i)

\* A repeated label gets ".1", ".2", ... (pandas' dedup_names).
RECURSIVE DedupLabel(_, _, _)
DedupLabel(col, n, taken) ==
  IF col \notin taken THEN col
  ELSE LET c == col \o <<".">> \o DecStr(n)
       IN  IF c \notin taken THEN c ELSE DedupLabel(col, n + 1, taken)

DedupNames(names) ==
  Bind(names, LAMBDA v :
    Loop(LAMBDA i, acc : Append(acc, DedupLabel(v[i], 1, Range(acc))),
         1, Len(v), <<>>))

\* df.columns: an empty header cell is "Unnamed: <position>", then dedup.
PandasColumns(header) ==
  DedupNames([i \in 1..Len(header) |->
                IF header[i] = <<>> THEN UnnamedLabel(i - 1) ELSE header[i]])

(***************************************************************************)
(* PHASE 1 - fast structural scan (one file of all_files per step)         *)
(***************************************************************************)

Key(rec) == <<rec.file, rec.sheet>>

IsWorkbook(f) == f.ftype \in {".xlsx", ".xls"}
IsDelimited(f) == f.ftype \in {".csv", ".tsv"}

\* The record of one workbook sheet that scanned: an empty sheet (no row at
\* all) gets the empty record, any other its stripped headers.
WorkbookRecord(f, sh) ==
  LET headers == [i \in 1..Len(sh.header) |-> safe_str(sh.header[i])]
  IN  [file |-> f.name, sheet |-> sh.sheet, ftype |-> f.ftype,
       columns |-> headers, col_count |-> Len(headers),
       norm_cols |-> [i \in 1..Len(headers) |-> normalize_col(headers[i])],
       is_wide |-> Len(headers) > WIDE_COLS]

DelimitedRecord(f, sh) ==
  LET headers == PandasColumns(sh.header)
  IN  [file |-> f.name, sheet |-> "(csv)", ftype |-> f.ftype,
       columns |-> headers, col_count |-> Len(headers),
       norm_cols |-> [i \in 1..Len(headers) |-> normalize_col(headers[i])],
       is_wide |-> Len(headers) > WIDE_COLS]

\* read_csv raises on a file it cannot open and on one with no columns.
DelimitedFails(f) == ~f.readable \/ f.sheets[1].header = <<>>

\* The records and the error messages one file adds.
ScanRecords(f) ==
  IF IsWorkbook(f) THEN
    IF ~f.readable THEN <<>>
    ELSE LET ok == SelectSeq(f.sheets, LAMBDA sh : sh.scans)
         IN  [i \in 1..Len(ok) |-> WorkbookRecord(f, ok[i])]
  ELSE IF IsDelimited(f) THEN
    IF DelimitedFails(f) THEN <<>> ELSE <<DelimitedRecord(f, f.sheets[1])>>
  ELSE <<>>

ScanErrors(f) ==
  IF IsWorkbook(f) THEN
    IF ~f.readable THEN << <<"File", f.name>> >>
    ELSE LET bad == SelectSeq(f.sheets, LAMBDA sh : ~sh.scans)
         IN  [i \in 1..Len(bad) |-> <<"Sheet", f.name, bad[i].sheet>>]
  ELSE IF IsDelimited(f) THEN
    IF DelimitedFails(f) THEN << <<"File", f.name>> >> ELSE <<>>
  ELSE <<>>

\* One turn of the Phase 1 loop.  fpath.stat() comes before the try block: a
\* path that cannot be stat'ed (a dangling link, a file removed since the
\* listing) raises out of the loop and ends the script.
ScanFile ==
  /\ pc = "phase1"
  /\ idx <= Len(disk)
  /\ IF disk[idx].stats
     THEN /\ phase1' = phase1 \o ScanRecords(disk[idx])
          /\ errors_log' = errors_log \o ScanErrors(disk[idx])
          /\ idx' = idx + 1
          /\ pc' = pc
     ELSE /\ pc' = "aborted"
          /\ UNCHANGED <<idx, phase1, errors_log>>
  /\ UNCHANGED <<disk, phase2_vars, phase3_vars, deep_profiles, quality_issues, relate_vars,
                 fp_vars, report_vars, call>>

(***************************************************************************)
(* PHASE 2 - common column detection and the similar-name merge            *)
(***************************************************************************)

\* Every non-empty normalized name of phase1, record by record, column by column.
AllNorms(p1) ==
  Flatten([r \in 1..Len(p1) |-> SelectSeq(p1[r].norm_cols, LAMBDA n : n # <<>>)])

Count(s, x) == Cardinality({i \in 1..Len(s) : s[i] = x})

Similar(a, b) ==
  LET r == SeqRatio(a, b) IN r[1] * 100 >= COL_SIM_THRESH * r[2]

\* MergeStep that lets a later canonical take over a key that is already an
\* alias.
MergeStepOverwrite(keys, i, m) ==
  IF keys[i] \in DOMAIN m THEN m
  ELSE [k \in {keys[j] : j \in {j \in (i+1)..Len(keys) :
                                   Similar(keys[i], keys[j])}} |-> keys[i]] @@ m

\* MergeStep that does not skip a key that is already an alias: aliases
\* collect aliases of their own.
MergeStepNoSkip(keys, i, m) ==
  [k \in {keys[j] : j \in {j \in (i+1)..Len(keys) :
                              /\ keys[j] \notin DOMAIN m
                              /\ Similar(keys[i], keys[j])}} |-> keys[i]] @@ m

\* The double loop over norm_keys: a key that is already an alias is skipped
\* on both sides; every later free key similar to keys[i] becomes its alias.
MergeStep(keys, i, m) ==
  IF keys[i] \in DOMAIN m THEN m
  ELSE [k \in {keys[j] : j \in {j \in (i+1)..Len(keys) :
                                   /\ keys[j] \notin DOMAIN m
                                   /\ Similar(keys[i], keys[j])}} |-> keys[i]] @@ m

EmptyMap == [k \in {} |-> 0]

Merged(keys) ==
  Bind(keys, LAMBDA v : Loop(LAMBDA i, m : MergeStep(v, i, m), 1, Len(v), EmptyMap))

\* merged.get(n, n)
Canon(m, n) == IF n \in DOMAIN m THEN m[n] ELSE n

RECURSIVE SumOver(_, _)
SumOver(f, S) ==
  IF S = {} THEN 0
  ELSE LET x == CHOOSE x \in S : TRUE IN f[x] + SumOver(f, S \ {x})

Phase2 ==
  /\ pc = "phase1"
  /\ idx > Len(disk)
  /\ norm_keys' = Distinct(AllNorms(phase1))
  /\ col_freq' = Bind(AllNorms(phase1), LAMBDA names :
                   [k \in Range(norm_keys') |-> Count(names, k)])
  /\ merged' = Merged(norm_keys')
  /\ canonical_freq' =
       [c \in {Canon(merged', k) : k \in Range(norm_keys')} |->
          SumOver(col_freq', {k \in Range(norm_keys') : Canon(merged', k) = c})]
  /\ pc' = "phase3"
  /\ UNCHANGED <<disk, idx, phase1, errors_log, phase3_vars, deep_profiles, quality_issues,
                 relate_vars, fp_vars, report_vars, call>>

(***************************************************************************)
(* PHASE 3 - clustering                                                    *)
(***************************************************************************)

\* jaccard with the first argument's size as the denominator (an overlap
\* coefficient in place of the union).
jaccard_overlap(a, b) ==
  IF a = {} /\ b = {} THEN <<0, 1>>
  ELSE <<Cardinality(a \cap b), Max(1, Cardinality(a))>>

\* jaccard of phased_analyzer_v3 as the fraction <<numerator, denominator>>:
\* two empty sets give 0.
jaccard(a, b) ==
  IF a = {} /\ b = {} THEN <<0, 1>>
  ELSE <<Cardinality(a \cap b), Cardinality(a \cup b)>>

\* jaccard of analyze_spreadsheets: two empty sets give 1.0, and the
\* denominator is max(1, |a | b|).
as_jaccard(a, b) ==
  IF a = {} /\ b = {} THEN <<1, 1>>
  ELSE <<Cardinality(a \cap b), Max(1, Cardinality(a \cup b))>>

\* jaccard of phased_analyzer: the sets are built from the two lists first,
\* two empty sets give 0.
pa_jaccard(a, b) ==
  IF a = {} /\ b = {} THEN <<0, 1>>
  ELSE <<Cardinality(a \cap b), Cardinality(a \cup b)>>

\* fraction >= hundredths / 100
AtLeast(fr, hundredths) == fr[1] * 100 >= hundredths * fr[2]

SheetKeys(p1) == Distinct([i \in 1..Len(p1) |-> Key(p1[i])])

\* sheet_name_groups: the sheet names in order of first appearance, each with
\* the keys of its records in phase1 order.
SheetNameGroups(p1) ==
  LET names == Distinct([i \in 1..Len(p1) |-> p1[i].sheet])
      keys  == [i \in 1..Len(p1) |-> Key(p1[i])]
  IN  [g \in 1..Len(names) |-> SelectSeq(keys, LAMBDA k : k[2] = names[g])]

\* sheet_colsets[key]: the canonical names of the record's non-empty norm_cols
\* (a later record with the same key overwrites an earlier one).
SheetColsets(p1, m) ==
  [k \in Range(SheetKeys(p1)) |->
     LET last == CHOOSE i \in 1..Len(p1) :
                   Key(p1[i]) = k /\ \A j \in (i+1)..Len(p1) : Key(p1[j]) # k
     IN  {Canon(m, n) : n \in {x \in Range(p1[last].norm_cols) : x # <<>>}}]

\* The members of one sheet-name group kept beside its first member.
NameGroup(members, colsets) ==
  LET representative == colsets[members[1]]
  IN  SelectSeq(members, LAMBDA mm :
        \/ AtLeast(jaccard(representative, colsets[mm]), SHEET_NAME_OVERLAP)
        \/ colsets[mm] = representative)

\* The clusters of the sheet-name pass, in cid order.
SheetNameClusters(p1, colsets) ==
  LET groups == SheetNameGroups(p1)
      forms(members) == /\ Len(members) >= 2
                        /\ colsets[members[1]] # {}
                        /\ Len(NameGroup(members, colsets)) >= 2
      kept == SelectSeq(groups, forms)
  IN  [c \in 1..Len(kept) |->
         LET group == NameGroup(kept[c], colsets)
         IN  [members |-> group,
              union_cols |-> UNION {colsets[g] : g \in Range(group)},
              via |-> "sheet-name"]]

\* d[k] = v on a dict held as a function.
Put(d, k, v) == (k :> v) @@ d

\* for g in group: assigned[g] = cid
RECURSIVE AssignAll(_, _, _)
AssignAll(asg, group, c) ==
  IF group = <<>> THEN asg
  ELSE Bind(Put(asg, Head(group), c),
            LAMBDA next : Bind(Tail(group), LAMBDA rest : AssignAll(next, rest, c)))

\* assigned after the sheet-name pass: cluster c of cl is cid c.
RECURSIVE SheetNameAssigned(_, _)
SheetNameAssigned(cl, c) ==
  IF c = 0 THEN EmptyMap
  ELSE Bind(SheetNameAssigned(cl, c - 1),
            LAMBDA before : AssignAll(before, cl[c].members, c))

ClusterBySheetName ==
  /\ pc = "phase3"
  /\ sheet_colsets' = SheetColsets(phase1, merged)
  /\ clusters' = SheetNameClusters(phase1, sheet_colsets')
  /\ assigned' = SheetNameAssigned(clusters', Len(clusters'))
  /\ pc' = "phase3_jaccard"
  /\ UNCHANGED <<disk, idx, phase1, errors_log, phase2_vars, deep_profiles, quality_issues,
                 relate_vars, fp_vars, report_vars, call>>

\* GrowStep with the bar of the similar-name merge (COL_SIM_THRESH) in place
\* of CLUSTER_OVERLAP.
GrowStepColThresh(remaining, colsets, c, j, st) ==
  IF remaining[j] \in DOMAIN st.assigned THEN st
  ELSE IF AtLeast(jaccard(st.ccols, colsets[remaining[j]]), COL_SIM_THRESH)
  THEN [members  |-> Append(st.members, remaining[j]),
        assigned |-> Put(st.assigned, remaining[j], c),
        ccols    |-> st.ccols \cup colsets[remaining[j]]]
  ELSE st

\* GrowStep without "assigned[kj] = cid": the key joins the cluster but stays
\* free for a later one.
GrowStepNoAssign(remaining, colsets, c, j, st) ==
  IF remaining[j] \in DOMAIN st.assigned THEN st
  ELSE IF AtLeast(jaccard(st.ccols, colsets[remaining[j]]), CLUSTER_OVERLAP)
  THEN [members  |-> Append(st.members, remaining[j]),
        assigned |-> st.assigned,
        ccols    |-> st.ccols \cup colsets[remaining[j]]]
  ELSE st

\* One turn of the inner loop, at position j for cluster c: a later key not
\* yet assigned joins when its column set overlaps the cluster's growing
\* union; st holds members, ccols and assigned.
GrowStep(remaining, colsets, c, j, st) ==
  IF remaining[j] \in DOMAIN st.assigned THEN st
  ELSE IF AtLeast(jaccard(st.ccols, colsets[remaining[j]]), CLUSTER_OVERLAP)
  THEN [members  |-> Append(st.members, remaining[j]),
        assigned |-> Put(st.assigned, remaining[j], c),
        ccols    |-> st.ccols \cup colsets[remaining[j]]]
  ELSE st

\* for j in range(i + 1, len(remaining))
JaccardGrow(remaining, i, colsets, c, st) ==
  Loop(LAMBDA j, s : GrowStep(remaining, colsets, c, j, s), i + 1, Len(remaining), st)

\* One turn of the outer loop, at position i: an unassigned key opens cluster
\* cid + 1; st holds clusters (cid is their number) and assigned.
PassStep(remaining, colsets, i, st) ==
  IF remaining[i] \in DOMAIN st.assigned THEN st
  ELSE Bind(JaccardGrow(remaining, i, colsets, Len(st.clusters) + 1,
                        [members |-> <<remaining[i]>>,
                         assigned |-> Put(st.assigned, remaining[i], Len(st.clusters) + 1),
                         ccols |-> colsets[remaining[i]]]),
            LAMBDA g :
              [clusters |-> Append(st.clusters,
                              [members |-> g.members, union_cols |-> g.ccols,
                               via |-> "jaccard"]),
               assigned |-> g.assigned])

\* for i, ki in enumerate(remaining)
JaccardPass(remaining, colsets, st) ==
  Loop(LAMBDA i, s : PassStep(remaining, colsets, i, s), 1, Len(remaining), st)

(***************************************************************************)
(* Classification of the clusters                                          *)
(***************************************************************************)

\* SIGNALS: the labels in the order of the dict, each with its signal names
\* (the dash of a label is written as a hyphen).
SIGNALS ==
  << [label |-> "Entity Table - Product/Part Catalog",
      sig |-> {
        <<"s","k","u">>, <<"t","i","t","l","e">>, <<"b","r","a","n","d">>,
        <<"p","r","i","c","e">>, <<"u","p","c">>, <<"m","p","n">>,
        <<"d","e","s","c","r","i","p","t","i","o","n">>,
        <<"i","t","e","m","_","n","a","m","e">>,
        <<"p","r","o","d","u","c","t","_","n","a","m","e">>,
        <<"c","o","n","d","i","t","i","o","n">>, <<"c","a","t","e","g","o","r","y">>,
        <<"m","a","n","u","f","a","c","t","u","r","e","r","_","p","a","r","t","_","n","u","m","b","e","r">>,
        <<"p","a","r","t","_","n","u","m","b","e","r">>, <<"i","t","e","m","_","s","k","u">>,
        <<"c","u","s","t","o","m","_","l","a","b","e","l">>,
        <<"e","b","a","y","_","t","i","t","l","e">>, <<"q","u","a","n","t","i","t","y">>,
        <<"o","e","m","_","n","u","m","b","e","r">>,
        <<"p","a","r","t","s","_","d","e","s","c","r","i","p","t","i","o","n">>,
        <<"p","a","r","t","_","t","i","t","l","e">>,
        <<"a","d","d","i","t","i","o","n","a","l","_","d","e","t","a","i","l","s">>,
        <<"o","e","m">>, <<"r","e","a","l","_","p","r","i","c","e">> }],
     [label |-> "Export Format - eBay Listing Template",
      sig |-> {
        <<"a","c","t","i","o","n">>, <<"s","i","t","e","_","i","d">>,
        <<"f","o","r","m","a","t">>, <<"d","u","r","a","t","i","o","n">>,
        <<"s","t","a","r","t","_","p","r","i","c","e">>,
        <<"b","u","y","_","i","t","_","n","o","w","_","p","r","i","c","e">>,
        <<"l","i","s","t","i","n","g","_","t","y","p","e">>,
        <<"l","i","s","t","i","n","g","_","d","u","r","a","t","i","o","n">>,
        <<"e","b","a","y","_","c","a","t","e","g","o","r","y">>,
        <<"e","b","a","y","_","i","t","e","m","_","i","d">>,
        <<"l","i","s","t","i","n","g","_","s","t","a","t","u","s">>,
        <<"i","t","e","m","_","i","d">>,
        <<"d","o","n","t","_","c","h","a","n","g","e","_","t","h","i","s">>,
        <<"g","e","n","e","r","a","l","_","i","n","s","t","r","u","c","t","i","o","n","s">>,
        <<"s","h","i","p","p","i","n","g","p","o","l","i","c","y","n","a","m","e","s">>,
        <<"r","e","t","u","r","n","p","o","l","i","c","y","n","a","m","e","s">>,
        <<"p","a","y","m","e","n","t","p","o","l","i","c","y","n","a","m","e","s">> }],
     [label |-> "Reference Lookup - Category Mapping",
      sig |-> {
        <<"c","a","t","e","g","o","r","y","_","i","d">>,
        <<"c","a","t","e","g","o","r","y","_","n","a","m","e">>, <<"h","e","a","d","e","r">>,
        <<"m","a","n","d","a","t","o","r","y">>, <<"v","a","l","u","e","s">> }],
     [label |-> "Reference Lookup - eBay Item Aspects",
      sig |-> {
        <<"c","_","b","r","a","n","d">>,
        <<"c","_","m","a","n","u","f","a","c","t","u","r","e","r","_","p","a","r","t","_","n","u","m","b","e","r">>,
        <<"c","_","p","l","a","c","e","m","e","n","t","_","o","n","_","v","e","h","i","c","l","e">>,
        <<"c","_","f","i","t","m","e","n","t","_","t","y","p","e">>,
        <<"c","_","w","a","r","r","a","n","t","y">>, <<"c","_","t","y","p","e">>,
        <<"c","_","m","a","t","e","r","i","a","l">>,
        <<"c","_","s","u","r","f","a","c","e","_","f","i","n","i","s","h">>,
        <<"c","_","c","o","l","o","r">> }],
     [label |-> "Relational Mapping - Vehicle Fitment",
      sig |-> {
        <<"m","a","k","e">>, <<"m","o","d","e","l">>, <<"y","e","a","r">>,
        <<"e","n","g","i","n","e">>, <<"s","u","b","m","o","d","e","l">>, <<"t","r","i","m">>,
        <<"f","i","t","m","e","n","t">>, <<"v","e","h","i","c","l","e">>,
        <<"c","o","m","p","a","t","i","b","i","l","i","t","y">>, <<"m","a","k","e","r">> }],
     [label |-> "Media Mapping - Image/URL heavy",
      sig |-> {
        <<"i","m","a","g","e","_","u","r","l">>, <<"p","i","c","u","r","l">>,
        <<"p","i","c","_","u","r","l">>, <<"i","m","a","g","e">>, <<"p","h","o","t","o">>,
        <<"g","a","l","l","e","r","y","_","u","r","l">>,
        <<"p","i","c","t","u","r","e","_","u","r","l">>,
        <<"i","m","a","g","e","_","c","o","u","n","t">>,
        <<"f","o","l","d","e","r","_","l","i","n","k">>,
        <<"i","m","a","g","e","_","l","i","n","k","s","_","o","n","e","_","p","e","r","_","c","o","l","u","m","n","_","f","_","g","_","h">>,
        <<"e","x","i","s","t","s","_","i","n","_","d","r","i","v","e">> }],
     [label |-> "Inventory Snapshot - SKU + Quantity",
      sig |-> {
        <<"q","u","a","n","t","i","t","y">>, <<"l","o","c","a","t","i","o","n">>,
        <<"w","a","r","e","h","o","u","s","e">>, <<"s","t","o","c","k">>, <<"b","i","n">>,
        <<"q","t","y">>,
        <<"a","v","a","i","l","a","b","l","e","_","q","u","a","n","t","i","t","y">>, <<"q">> }],
     [label |-> "Metadata / Instructions Sheet",
      sig |-> {
        <<"i","n","f","o">>, <<"c","r","e","a","t","e","d">>,
        <<"i","n","d","i","c","a","t","e","s","_","m","i","s","s","i","n","g","_","r","e","q","u","i","r","e","d","_","f","i","e","l","d","s">>,
        <<"i","n","d","i","c","a","t","e","s","_","m","i","s","s","i","n","g","_","f","i","e","l","d","_","t","h","a","t","_","w","i","l","l","_","b","e","_","r","e","q","u","i","r","e","d","_","s","o","o","n">>,
        <<"f","i","t","m","e","n","t","_","p","a","r","t","s","_","a","c","c","e","s","s","o","r","i","e","s","_","h","e","l","p">> }],
     [label |-> "Condition Descriptors Reference",
      sig |-> {
        <<"c","o","n","d","i","t","i","o","n","_","d","e","s","c","r","i","p","t","o","r">>,
        <<"c","o","n","d","i","t","i","o","n","d","e","s","c","r","i","p","t","o","r","s">> }] >>

FirstBest(scores) ==
  CHOOSE i \in 1..Len(scores) :
    /\ \A j \in 1..Len(scores) : scores[j].hits <= scores[i].hits
    /\ \A j \in 1..(i - 1) : scores[j].hits < scores[i].hits

\* max(len(s) for s in SIGNALS.values())
MaxSig ==
  LET n == {Cardinality(SIGNALS[i].sig) : i \in 1..Len(SIGNALS)}
  IN  CHOOSE m \in n : \A k \in n : k <= m

\* classify_cluster(union_cols): the label with the most signal names among
\* the columns, the first such label of SIGNALS among equals, and its
\* confidence; "Unknown" at 20 when no label has a hit.
classify_cluster(union_cols) ==
  LET cols   == {ToLower(c) : c \in union_cols}
      all    == [i \in 1..Len(SIGNALS) |->
                   [label |-> SIGNALS[i].label,
                    hits  |-> Cardinality(cols \cap SIGNALS[i].sig)]]
      scores == SelectSeq(all, LAMBDA sc : sc.hits > 0)
  IN  IF scores = <<>>
      THEN [label |-> "Unknown - insufficient signals", confidence |-> 20]
      ELSE LET best == scores[FirstBest(scores)]
           IN  [label |-> best.label,
                confidence |-> Min(95, ((best.hits * 100) \div MaxSig) + 40)]

\* The loop after clustering: every cluster gets its label and confidence.
Classified(cinfo) ==
  LET r == classify_cluster(cinfo.union_cols)
  IN  [members |-> cinfo.members, union_cols |-> cinfo.union_cols, via |-> cinfo.via,
       label |-> r.label, confidence |-> r.confidence]

ClusterByJaccard ==
  /\ pc = "phase3_jaccard"
  /\ \E st \in {JaccardPass(SelectSeq(SheetKeys(phase1), LAMBDA k : k \notin DOMAIN assigned),
                              sheet_colsets, [clusters |-> clusters, assigned |-> assigned])} :
       /\ clusters' = [c \in 1..Len(st.clusters) |-> Classified(st.clusters[c])]
       /\ assigned' = st.assigned
  /\ pc' = "phase4"
  /\ idx' = 1
  /\ UNCHANGED <<disk, phase1, errors_log, phase2_vars, sheet_colsets,
                 deep_profiles, quality_issues, relate_vars, fp_vars, report_vars, call>>

(***************************************************************************)
(* PHASE 4 - deep profiling (one phase1 record per step)                   *)
(***************************************************************************)

\* The sheet on disk that a phase1 record was scanned from.
DiskSheet(rec) ==
  LET f == disk[CHOOSE i \in 1..Len(disk) : disk[i].name = rec.file]
  IN  IF IsWorkbook(f)
      THEN f.sheets[CHOOSE i \in 1..Len(f.sheets) : f.sheets[i].sheet = rec.sheet]
      ELSE f.sheets[1]

\* round(num / den, 0) to the nearest integer, a tie to the even one.  With
\* num a count times 1000 this is round(count / den * 100, 1) in tenths; the
\* floating-point evaluation agrees with it except possibly at ties, which
\* need den divisible by 16.
RoundHalfEven(num, den) ==
  LET q == num \div den
      r == num % den
  IN  IF 2 * r < den THEN q
      ELSE IF 2 * r > den THEN q + 1
      ELSE IF q % 2 = 0 THEN q ELSE q + 1

\* ser.nunique(): the distinct non-null values.
NUnique(ser) == Cardinality({c \in Range(ser) : c # <<>>})

\* round(nuniq / max(len(ser), 1) * 100, 1), in tenths of a percent.
Uniqueness(ser) == RoundHalfEven(NUnique(ser) * 1000, Max(Len(ser), 1))

\* round(ser.isna().mean() * 100, 1), in tenths; the mean of no rows is NaN,
\* written -1 here.
MissingPct(ser) ==
  IF Len(ser) = 0 THEN -1
  ELSE RoundHalfEven(Cardinality({i \in 1..Len(ser) : ser[i] = <<>>}) * 1000, Len(ser))

NonNull(ser) == Cardinality({i \in 1..Len(ser) : ser[i] # <<>>})

\* The positions of the n most populated columns: non-null count descending;
\* sort_values leaves the order among equal counts to the sort, taken here to
\* be by position.
TopPopulated(cols, n) ==
  Bind([i \in 1..Len(cols) |-> NonNull(cols[i])] \o <<>>, LAMBDA pop :
    [k \in 1..Min(n, Len(cols)) |->
       CHOOSE i \in 1..Len(cols) :
         Cardinality({j \in 1..Len(cols) :
                        pop[j] > pop[i] \/ (pop[j] = pop[i] /\ j < i)}) = k - 1])

\* cols_to_profile, as positions in df.columns.
ColsToProfile(rec, cols) ==
  IF rec.is_wide /\ Len(cols) > MAX_PROFILE_COLS
  THEN TopPopulated(cols, MAX_PROFILE_COLS)
  ELSE [i \in 1..Len(cols) |-> i]

\* infer_dtype(series): the kind of most of the sampled values.
\* A cell that is a whole number in decimal digits.
IsNumeral(v) == v # <<>> /\ \A i \in 1..Len(v) : v[i] \in Range(DigitChars)

\* series.dropna().astype(str) on a column as a deep read parsed it: whole
\* numbers beside missing cells were parsed as floats and print as "1.0".
DropnaStr(series) ==
  LET non_null == SelectSeq(series, LAMBDA c : c # <<>>)
      floats   == /\ Len(non_null) < Len(series)
                  /\ \A i \in 1..Len(non_null) : IsNumeral(non_null[i])
  IN  [i \in 1..Len(non_null) |->
         IF floats THEN non_null[i] \o <<".", "0">> ELSE non_null[i]]

DTYPE_HEAD == 200
MIXED_PCT == 60

Unsigned(v) == IF v # <<>> /\ v[1] = "-" THEN Tail(v) ELSE v

\* ^-?\d+$
IsInteger(v) == IsNumeral(Unsigned(v))

\* ^-?\d+\.\d+$
IsDecimal(v) ==
  LET t == Unsigned(v)
  IN  \E k \in 2..(Len(t) - 1) :
        /\ t[k] = "."
        /\ IsNumeral(SubSeq(t, 1, k - 1))
        /\ IsNumeral(SubSeq(t, k + 1, Len(t)))

BoolWords == {<<"t","r","u","e">>, <<"f","a","l","s","e">>, <<"y","e","s">>, <<"n","o">>}

\* ^(true|false|yes|no)$ with re.I
IsBoolWord(v) == ToLower(v) \in BoolWords

\* ^\d{1,4}[/-]\d{1,2}[/-]\d{1,4} : a match at the start, anything after it.
IsDateLike(v) ==
  \E a \in 1..4, b \in 1..2 :
    /\ Len(v) >= a + b + 3
    /\ IsNumeral(SubSeq(v, 1, a))
    /\ v[a + 1] \in {"/", "-"}
    /\ IsNumeral(SubSeq(v, a + 2, a + 1 + b))
    /\ v[a + b + 2] \in {"/", "-"}
    /\ v[a + b + 3] \in Range(DigitChars)

\* ^[\$€£]
IsCurrency(v) == v # <<>> /\ v[1] \in {"$", "€", "£"}

\* The if/elif chain of infer_dtype on one stripped value.
DtypeOf(v) ==
  IF IsInteger(v) THEN "integer"
  ELSE IF IsDecimal(v) THEN "decimal"
  ELSE IF IsBoolWord(v) THEN "boolean"
  ELSE IF IsDateLike(v) THEN "date"
  ELSE IF IsCurrency(v) THEN "currency"
  ELSE "string"

\* The values infer_dtype counts: the first 200 non-null values as strings,
\* stripped, the empty ones left out.
DtypeSample(series) ==
  LET sample == Take(DropnaStr(series), DTYPE_HEAD)
  IN  SelectSeq([i \in 1..Len(sample) |-> StripChars(sample[i], {" "})],
                LAMBDA v : v # <<>>)

\* counts.most_common(1)[0][0]: the kind counted most often, the one counted
\* first among equals.
MostCommon(kinds) ==
  LET order == Distinct(kinds)
      best  == CHOOSE i \in 1..Len(order) :
                 /\ \A j \in 1..Len(order) : Count(kinds, order[j]) <= Count(kinds, order[i])
                 /\ \A j \in 1..(i - 1) : Count(kinds, order[j]) < Count(kinds, order[i])
  IN  order[best]

infer_dtype(series) ==
  LET sample == DtypeSample(series)
      kinds  == [i \in 1..Len(sample) |-> DtypeOf(sample[i])]
  IN  IF kinds = <<>> THEN "empty"
      ELSE LET top == MostCommon(kinds)
           IN  IF /\ Count(kinds, top) * 100 < MIXED_PCT * Len(kinds)
                  /\ Cardinality(Range(kinds)) > 1
               THEN "mixed" ELSE top

NULL_HEAVY_PCT == 70
MIXED_MISSING_PCT == 50

\* The profiles of one sheet that was read: df has the first DEEP_ROWS rows;
\* a column whose profiling raises is passed over.
SheetProfiles(rec, sh, asg) ==
  LET labels == PandasColumns(sh.header)
      cols   == [i \in 1..Len(sh.cols) |-> Take(sh.cols[i], DEEP_ROWS)]
      todo   == SelectSeq(ColsToProfile(rec, cols), LAMBDA i : i \notin sh.bad_cols)
  IN  [t \in 1..Len(todo) |->
         LET ser == cols[todo[t]]
             col == labels[todo[t]]
         IN  [file |-> rec.file, sheet |-> rec.sheet, column |-> col,
              norm_col |-> normalize_col(col),
              inferred_type |-> infer_dtype(ser),
              missing_pct |-> MissingPct(ser),
              unique_values |-> NUnique(ser),
              uniqueness_pct |-> Uniqueness(ser),
              cluster_id |-> IF Key(rec) \in DOMAIN asg THEN asg[Key(rec)] ELSE 0]]

\* The quality flags of one profiled column: null-heavy above 70 % and
\* below 100 % missing, mixed type below 50 % missing.
QualityFlags(p) ==
  (IF p.missing_pct > NULL_HEAVY_PCT * 10 /\ p.missing_pct < 1000
   THEN <<[kind |-> "Null-heavy", file |-> p.file, sheet |-> p.sheet, column |-> p.column]>>
   ELSE <<>>)
  \o
  (IF p.inferred_type = "mixed" /\ p.missing_pct < MIXED_MISSING_PCT * 10
   THEN <<[kind |-> "Mixed type", file |-> p.file, sheet |-> p.sheet, column |-> p.column]>>
   ELSE <<>>)

ProfileSheet ==
  /\ pc = "phase4"
  /\ idx <= Len(phase1)
  /\ LET rec == phase1[idx]
         sh  == DiskSheet(rec)
     IN  IF ~sh.reads
         THEN /\ errors_log' = Append(errors_log, <<"Deep-read", rec.file, rec.sheet>>)
              /\ UNCHANGED <<deep_profiles, quality_issues>>
         ELSE /\ \E profiles \in {SheetProfiles(rec, sh, assigned)} :
                   /\ deep_profiles' = deep_profiles \o profiles
                   /\ quality_issues' =
                        quality_issues
                        \o Flatten([i \in 1..Len(profiles) |-> QualityFlags(profiles[i])])
              /\ UNCHANGED errors_log
  /\ idx' = idx + 1
  /\ UNCHANGED <<disk, pc, phase1, phase2_vars, phase3_vars, relate_vars,
                 fp_vars, report_vars, call>>

(***************************************************************************)
(* Relationship detection                                                  *)
(***************************************************************************)

\* col_sheet_map: the non-empty norm_cols in order of first appearance, each
\* with its (file, sheet, uniqueness_pct) locations in profile order.
ColSheetMap(profiles) ==
  LET named == SelectSeq(profiles, LAMBDA p : p.norm_col # <<>>)
      keys  == Distinct([i \in 1..Len(named) |-> named[i].norm_col])
  IN  [k \in 1..Len(keys) |->
         LET mine == SelectSeq(named, LAMBDA p : p.norm_col = keys[k])
         IN  [column |-> keys[k],
              locs |-> [i \in 1..Len(mine) |->
                          <<mine[i].file, mine[i].sheet, mine[i].uniqueness_pct>>]]]

\* high with the boundary let in: u >= 70.
HighFrom70(locs) == SelectSeq(locs, LAMBDA l : l[3] >= PK_UNIQ_PCT * 10)

\* high and low of one column: u > 70 and u <= 70.
High(locs) == SelectSeq(locs, LAMBDA l : l[3] > PK_UNIQ_PCT * 10)
Low(locs)  == SelectSeq(locs, LAMBDA l : l[3] <= PK_UNIQ_PCT * 10)

\* FkEdges with the two sides exchanged: the low location as the PK side.
FkEdgesSwapped(nc, high, low) ==
  Flatten([h \in 1..Len(high) |->
             [l \in 1..Len(low) |->
                [column |-> nc,
                 pk_file |-> low[l][1], pk_sheet |-> low[l][2], pk_uniq |-> low[l][3],
                 fk_file |-> high[h][1], fk_sheet |-> high[h][2], fk_uniq |-> high[h][3]]]])

\* FkEdges pairing the lists position by position (zip) instead of every
\* high with every low.
FkEdgesZip(nc, high, low) ==
  [h \in 1..Min(Len(high), Len(low)) |->
     [column |-> nc,
      pk_file |-> high[h][1], pk_sheet |-> high[h][2], pk_uniq |-> high[h][3],
      fk_file |-> low[h][1], fk_sheet |-> low[h][2], fk_uniq |-> low[h][3]]]

\* The FK edges of one column: for every high location, every low location.
FkEdges(nc, high, low) ==
  Flatten([h \in 1..Len(high) |->
             [l \in 1..Len(low) |->
                [column |-> nc,
                 pk_file |-> high[h][1], pk_sheet |-> high[h][2], pk_uniq |-> high[h][3],
                 fk_file |-> low[l][1], fk_sheet |-> low[l][2], fk_uniq |-> low[l][3]]]])

\* The columns the PK/FK loop looks at.
Considered(csm) == SelectSeq(csm, LAMBDA e : Len(e.locs) >= 2)

PkCandidates(csm) ==
  LET with == SelectSeq(Considered(csm), LAMBDA e : High(e.locs) # <<>>)
  IN  [i \in 1..Len(with) |-> <<with[i].column, High(with[i].locs)>>]

FkPairs(csm) ==
  LET c == Considered(csm)
  IN  Flatten([i \in 1..Len(c) |-> FkEdges(c[i].column, High(c[i].locs), Low(c[i].locs))])

JoinClusters(csm) ==
  LET c == SelectSeq(csm, LAMBDA e : Len(e.locs) >= 2)
  IN  [i \in 1..Len(c) |->
         [column |-> c[i].column, files |-> {l[1] : l \in Range(c[i].locs)}]]

Relate ==
  /\ pc = "phase4"
  /\ idx > Len(phase1)
  /\ col_sheet_map' = ColSheetMap(deep_profiles)
  /\ pk_candidates' = PkCandidates(col_sheet_map')
  /\ fk_pairs' = FkPairs(col_sheet_map')
  /\ join_clusters' = JoinClusters(col_sheet_map')
  /\ pc' = "redundancy"
  /\ UNCHANGED <<disk, idx, phase1, errors_log, phase2_vars, phase3_vars,
                 deep_profiles, quality_issues, fp_vars, report_vars, call>>

(***************************************************************************)
(* Redundancy: structural fingerprints                                     *)
(***************************************************************************)

\* "|".join(names)
JoinBar(names) ==
  Bind(names, LAMBDA v :
    Loop(LAMBDA i, acc : IF i = 1 THEN v[1] \o <<>> ELSE acc \o <<"|">> \o v[i],
         1, Len(v), <<>>))

\* Fingerprint with the slice one name short.
FingerprintShort(rec) ==
  JoinBar(Take(SortedStrs({n \in Range(rec.norm_cols) : n # <<>>}), FP_NAMES - 1))

\* sig of one record: the first 30 of its sorted distinct non-empty
\* norm_cols, joined.  The md5 digest of sig is written as sig itself:
\* digests are taken to differ when the texts differ.
Fingerprint(rec) ==
  JoinBar(Take(SortedStrs({n \in Range(rec.norm_cols) : n # <<>>}), FP_NAMES))

\* sheet_fps: the fingerprints in order of first appearance with their keys.
SheetFps(p1) ==
  Bind([i \in 1..Len(p1) |-> [fp |-> Fingerprint(p1[i]), key |-> Key(p1[i])]],
       LAMBDA sigs :
         Bind(Distinct([i \in 1..Len(sigs) |-> sigs[i].fp]), LAMBDA fps :
           [g \in 1..Len(fps) |->
              [fp |-> fps[g],
               members |-> Bind(SelectSeq(sigs, LAMBDA x : x.fp = fps[g]), LAMBDA mine :
                             [i \in 1..Len(mine) |-> mine[i].key])]]))

Redundancy ==
  /\ pc = "redundancy"
  /\ sheet_fps' = SheetFps(phase1)
  /\ redundant' = SelectSeq(sheet_fps', LAMBDA g : Len(g.members) > 1)
  /\ pc' = "deliverables"
  /\ UNCHANGED <<disk, idx, phase1, errors_log, phase2_vars, phase3_vars,
                 deep_profiles, quality_issues, relate_vars, report_vars, call>>

(***************************************************************************)
(* Deliverables, and clean_report's pass over them                         *)
(***************************************************************************)

\* data_dictionary.csv: one row per profile.  A value written by the csv
\* writer is read back unchanged by DictReader, and float() of a printed
\* one-decimal value is that value.
Deliverables ==
  /\ pc = "deliverables"
  /\ data_dictionary' =
       [i \in 1..Len(deep_profiles) |->
          [File |-> deep_profiles[i].file, Sheet |-> deep_profiles[i].sheet,
           Column |-> deep_profiles[i].column, NormCol |-> deep_profiles[i].norm_col,
           Uniq |-> deep_profiles[i].uniqueness_pct,
           Missing |-> deep_profiles[i].missing_pct]]
  /\ written' = [files |-> {"master_index.csv", "data_dictionary.csv",
                               "column_frequency_map.csv", "processing_log.txt",
                               "classification_report.md"},
                  errors_skipped |-> Len(errors_log)]
  /\ pc' = "clean_report"
  /\ UNCHANGED <<disk, idx, phase1, errors_log, phase2_vars, phase3_vars,
                 deep_profiles, quality_issues, relate_vars, fp_vars, cr_pk_candidates,
                 cr_fk_pairs, cr_join_cols, call>>

\* str.startswith
StartsWith(s, prefix) ==
  Len(s) >= Len(prefix) /\ SubSeq(s, 1, Len(prefix)) = prefix

\* named_dd: the rows whose NormCol does not start with "unnamed_".
NamedDd(rows) ==
  SelectSeq(rows, LAMBDA r : ~StartsWith(r.NormCol, <<"u","n","n","a","m","e","d","_">>))

\* clean_report's col_sheet_map: every NormCol of named_dd, the empty one too.
CrColSheetMap(rows) ==
  Bind(NamedDd(rows), LAMBDA named :
    Bind(Distinct([i \in 1..Len(named) |-> named[i].NormCol]), LAMBDA keys :
      [k \in 1..Len(keys) |->
         Bind(SelectSeq(named, LAMBDA r : r.NormCol = keys[k]), LAMBDA mine :
           [column |-> keys[k],
            locs |-> [i \in 1..Len(mine) |->
                        [file |-> mine[i].File, sheet |-> mine[i].Sheet,
                         uniq |-> mine[i].Uniq, missing |-> mine[i].Missing]]
                     \o <<>>])] \o <<>>))

\* The columns clean_report keeps: those found in at least two files.
CrJoined(csm) ==
  SelectSeq(csm, LAMBDA e : Cardinality({l.file : l \in Range(e.locs)}) >= 2)

CrHigh(locs) == SelectSeq(locs, LAMBDA l : l.uniq > PK_UNIQ_PCT * 10)
CrLow(locs)  == SelectSeq(locs, LAMBDA l : l.uniq <= PK_UNIQ_PCT * 10)

\* for h in high[:3]: for l in low[:3]
CrFkEdges(nc, high, low) ==
  LET hs == Take(high, CR_PAIR_CAP)
      ls == Take(low, CR_PAIR_CAP)
  IN  Flatten([h \in 1..Len(hs) |->
                 [l \in 1..Len(ls) |->
                    [col |-> nc,
                     pk |-> <<hs[h].file, hs[h].sheet>>, pk_u |-> hs[h].uniq,
                     fk |-> <<ls[l].file, ls[l].sheet>>, fk_u |-> ls[l].uniq]]])

CleanReport ==
  /\ pc = "clean_report"
  /\ \E c \in {CrJoined(CrColSheetMap(data_dictionary))} :
     LET with == SelectSeq(c, LAMBDA e : CrHigh(e.locs) # <<>>)
     IN  /\ cr_join_cols' =
               [i \in 1..Len(c) |->
                  [column |-> c[i].column, files |-> {l.file : l \in Range(c[i].locs)}]]
         /\ cr_pk_candidates' =
               [i \in 1..Len(with) |-> <<with[i].column, CrHigh(with[i].locs)>>]
         /\ cr_fk_pairs' =
               Flatten([i \in 1..Len(c) |->
                          CrFkEdges(c[i].column, CrHigh(c[i].locs), CrLow(c[i].locs))])
  /\ pc' = "done"
  /\ UNCHANGED <<disk, idx, phase1, errors_log, phase2_vars, phase3_vars,
                 deep_profiles, quality_issues, relate_vars, fp_vars, data_dictionary, written, call>>

(***************************************************************************)
(* The corpora the pipeline is run on                                      *)
(***************************************************************************)

\* Bounds of the corpora.
MaxFiles == 2
MaxRows == 2
JacNames == 3

FileNames == <<"f1", "f2", "f3", "f4">>

\* A sheet that scans, reads and profiles without failure; bad_cols are the
\* positions of the columns whose profiling raises.
Sheet(name, header, cols) ==
  [sheet |-> name, scans |-> TRUE, reads |-> TRUE, bad_cols |-> {},
   header |-> header, cols |-> cols]

Workbook(name, sheets) ==
  [name |-> name, ftype |-> ".xlsx", stats |-> TRUE, readable |-> TRUE,
   sheets |-> sheets]

Delimited(name, header, cols) ==
  [name |-> name, ftype |-> ".csv", stats |-> TRUE, readable |-> TRUE,
   sheets |-> <<Sheet("(csv)", header, cols)>>]

\* One data row holding "1" under every header cell.
UnitCols(header) == [i \in 1..Len(header) |-> << <<"1">> >>]

\* Headers of the clustering corpora: an empty sheet, {a,b}, {a,c}, {a,b,c},
\* {a,b,c,d} and {d}, spelled with capitals and blanks that normalization
\* removes.
ClusterHeaders ==
  { <<>>,
    << <<"A">>, <<" ","b">> >>,
    << <<"a">>, <<"C"," ">> >>,
    << <<"a">>, <<"b">>, <<"c">> >>,
    << <<"a">>, <<"b">>, <<"c">>, <<"D">> >>,
    << <<"d">> >> }

\* What one file of a clustering corpus can be.
ClusterFiles(name) ==
  {Delimited(name, h, UnitCols(h)) : h \in ClusterHeaders}
  \cup {Workbook(name, <<Sheet("S", h, UnitCols(h))>>) : h \in ClusterHeaders}
  \cup {Workbook(name, <<Sheet("S", h, UnitCols(h)),
                         Sheet("T", << <<"a">>, <<"b">> >>,
                               UnitCols(<< <<"a">>, <<"b">> >>))>>) :
          h \in {<<>>, << <<"a">>, <<"b">>, <<"c">> >>} }
  \cup {Workbook(name, <<Sheet("S", h, UnitCols(h)), Sheet("U", h, UnitCols(h))>>) :
          h \in {<< <<"a">>, <<"b">>, <<"c">> >>} }

\* The sequences of n files, file i drawn from F(FileNames[i]).
RECURSIVE FileSeqs(_, _)
FileSeqs(F(_), n) ==
  IF n = 0 THEN {<<>>}
  ELSE {Append(front, f) : front \in FileSeqs(F, n - 1), f \in F(FileNames[n])}

ClusterCorpora == UNION {FileSeqs(ClusterFiles, n) : n \in 1..MaxFiles}

\* Files that cannot be opened, sheets that cannot be scanned or read again,
\* a column whose profiling raises, a file type no branch handles, and a
\* path that cannot be stat'ed.
FailCorpora ==
  LET ab  == << <<"a">>, <<"b">> >>
      abc == << <<"a">>, <<"b">>, <<"c">> >>
  IN  { << [Workbook("f1", << [Sheet("S", ab, UnitCols(ab)) EXCEPT !.scans = sc],
                              [Sheet("T", abc, UnitCols(abc)) EXCEPT !.bad_cols = bc] >>)
              EXCEPT !.readable = r1],
           [Delimited("f2", ab, UnitCols(ab)) EXCEPT !.readable = r2, !.stats = st],
           [Workbook("f3", <<Sheet("S", ab, UnitCols(ab))>>) EXCEPT !.ftype = ".ods"],
           [Delimited("f4", abc, UnitCols(abc)) EXCEPT !.sheets[1].reads = rd] >> :
        r1 \in BOOLEAN, sc \in BOOLEAN, bc \in {{}, {2}}, r2 \in BOOLEAN,
        st \in BOOLEAN, rd \in BOOLEAN }

\* Columns of data: every column of 1..MaxRows cells over null, "1", "2" ...
RECURSIVE CellSeqs(_)
CellSeqs(n) ==
  IF n = 0 THEN {<<>>}
  ELSE {Append(front, c) : front \in CellSeqs(n - 1), c \in {<<>>, <<"1">>, <<"2">>}}

SmallColumns == UNION {CellSeqs(n) : n \in 1..MaxRows}

\* ... n rows holding "1".."d" in turn: d distinct values, each repeated.
Cycle(n, d) == [i \in 1..n |-> DecStr(((i - 1) % d) + 1)]

\* 17 distinct values, the same 17 repeated 2 to 3 times (40 rows), 7 distinct
\* values in 10 rows (70.0%), 145 in 207 (70.05%), 701 distinct values and
\* the same 701 twice over (1402 rows, more than one deep read takes).
SpecialColumns ==
  {Cycle(17, 17), Cycle(40, 17), Cycle(10, 7), Cycle(207, 145),
   Cycle(701, 701), Cycle(1402, 701)}

OrderId == << <<"O","r","d","e","r"," ","I","D">> >>
IdHeader == << <<"i","d">> >>

\* The same column in two delimited files, any two columns of data.
PairCorpora ==
  { <<Delimited("f1", OrderId, <<c1>>), Delimited("f2", OrderId, <<c2>>)>> :
      c1 \in SmallColumns \cup SpecialColumns, c2 \in SmallColumns \cup SpecialColumns }

\* The same column in the two sheets of one workbook, and twice in one sheet
\* under two spellings.
OneFileCorpora ==
  LET few == {Cycle(17, 17), Cycle(40, 17), Cycle(10, 7), <<<<"1">>, <<>>>>}
  IN  { <<Workbook("f1", <<Sheet("S", IdHeader, <<c1>>), Sheet("T", IdHeader, <<c2>>)>>)>> :
          c1 \in few, c2 \in few }
      \cup
      { <<Workbook("f1", <<Sheet("S", << <<"I","D">>, <<"i","d">> >>, <<c1, c2>>)>>)>> :
          c1 \in {Cycle(2, 2)}, c2 \in {Cycle(2, 2), Cycle(2, 1)} }

\* The same column in five sheets of three files.
ManyCorpora ==
  LET two == {Cycle(17, 17), Cycle(40, 17)}
  IN  { <<Workbook("f1", <<Sheet("S", IdHeader, <<c1>>), Sheet("T", IdHeader, <<c2>>)>>),
          Workbook("f2", <<Sheet("S", IdHeader, <<c3>>), Sheet("T", IdHeader, <<c4>>)>>),
          Delimited("f3", IdHeader, <<c5>>)>> :
          c1 \in two, c2 \in two, c3 \in two, c4 \in two, c5 \in two }

\* Wide headers n01..n29, n01..n30, n01..n31, n01..n30 + n32, and the similar names
\* "id" and "ids".
WideName(i) == <<"n">> \o (IF i < 10 THEN <<"0">> ELSE <<>>) \o DecStr(i)

FingerprintHeaders ==
  { [i \in 1..(FP_NAMES - 1) |-> WideName(i)],
    [i \in 1..FP_NAMES |-> WideName(i)],
    [i \in 1..(FP_NAMES + 1) |-> WideName(i)],
    [i \in 1..(FP_NAMES + 1) |-> IF i <= FP_NAMES THEN WideName(i) ELSE WideName(i + 1)],
    << <<"i","d">> >>,
    << <<"I","d","s">> >>,
    << <<"i","d">>, <<"n","0","1">> >> }

FingerprintCorpora ==
  { <<Workbook("f1", <<Sheet("S", h1, UnitCols(h1))>>), Delimited("f2", h2, UnitCols(h2))>> :
      h1 \in FingerprintHeaders, h2 \in FingerprintHeaders }

\* The names "id", "ids" and "idsx" in every order, in one sheet and over two
\* files: "ids" is similar to both others (ratios 0.8 and 0.857), "id" and
\* "idsx" are not similar (0.667).
ChainNames == << <<"i","d">>, <<"i","d","s">>, <<"i","d","s","x">> >>

ChainHeaders ==
  { [i \in 1..3 |-> ChainNames[p[i]]] :
      p \in {q \in [1..3 -> 1..3] : {q[i] : i \in 1..3} = 1..3} }

MergeCorpora ==
  { <<Delimited("f1", h, UnitCols(h))>> : h \in ChainHeaders }
  \cup
  { <<Workbook("f1", <<Sheet("S", SubSeq(h, 1, 1), UnitCols(SubSeq(h, 1, 1)))>>),
      Delimited("f2", SubSeq(h, 2, 3), UnitCols(SubSeq(h, 2, 3)))>> : h \in ChainHeaders }

\* Headers with the ledger columns, with catalog and inventory signals
\* (quantity is a signal of both), and with no signal name.
LedgerHeaders ==
  { << <<"D","e","b","i","t">>, <<"C","r","e","d","i","t">> >>,
    << <<"d","e","b","i","t">>, <<"c","r","e","d","i","t">>, <<"s","k","u">> >>,
    << <<"s","k","u">>, <<"q","t","y">>, <<"s","t","o","c","k">> >>,
    << <<"q","u","a","n","t","i","t","y">> >>,
    << <<"d","e","b","i","t">> >> }

LedgerCorpora ==
  { <<Delimited("f1", h1, UnitCols(h1)), Delimited("f2", h2, UnitCols(h2))>> :
      h1 \in LedgerHeaders, h2 \in LedgerHeaders }

\* A column under the header "#", which normalizes to the empty name, and
\* under "id": three cells in four missing, a number beside a word, and two
\* numbers.
QualityColumns ==
  { << <<"1">>, <<>>, <<>>, <<>> >>, << <<"1">>, <<"x">> >>, << <<"1">>, <<"2">> >> }

QualityCorpora ==
  { <<Delimited("f1", <<h>>, <<c>>), Delimited("f2", <<h>>, <<c>>)>> :
      h \in { <<"#">>, <<"i","d">> }, c \in QualityColumns }

\* A wide sheet: WIDE_COLS + 1 header cells, all blank but the last, and one
\* data row that fills the first MAX_PROFILE_COLS columns only, so that the
\* columns after them, the named one among them, are not profiled; beside it
\* a file whose one column has the name "zz".
WideHeader(name) == [i \in 1..(WIDE_COLS + 1) |-> IF i <= WIDE_COLS THEN <<>> ELSE name]

WideCols == [i \in 1..(WIDE_COLS + 1) |-> IF i <= MAX_PROFILE_COLS THEN << <<"1">> >> ELSE << <<>> >>]

WideCorpora ==
  { <<Workbook("f1", <<Sheet("W", WideHeader(name), WideCols)>>),
      Delimited("f2", << <<"z","z">> >>, << << <<"1">> >> >>)>> :
      name \in { <<"z","z">>, <<"y","y">> } }

\* No spreadsheet file under ROOT (or no such directory): all_files is empty.
EmptyCorpora == {<<>>}

Corpora == ClusterCorpora \cup FailCorpora \cup PairCorpora \cup OneFileCorpora
           \cup ManyCorpora \cup FingerprintCorpora \cup MergeCorpora
           \cup LedgerCorpora \cup QualityCorpora \cup WideCorpora
           \cup EmptyCorpora

(***************************************************************************)
(* The pipeline                                                            *)
(***************************************************************************)

Fresh ==
  /\ pc = "phase1"
  /\ idx = 1
  /\ phase1 = <<>>
  /\ errors_log = <<>>
  /\ norm_keys = <<>>
  /\ col_freq = EmptyMap
  /\ merged = EmptyMap
  /\ canonical_freq = EmptyMap
  /\ sheet_colsets = EmptyMap
  /\ assigned = EmptyMap
  /\ clusters = <<>>
  /\ deep_profiles = <<>>
  /\ quality_issues = <<>>
  /\ col_sheet_map = <<>>
  /\ pk_candidates = <<>>
  /\ fk_pairs = <<>>
  /\ join_clusters = <<>>
  /\ sheet_fps = <<>>
  /\ redundant = <<>>
  /\ data_dictionary = <<>>
  /\ cr_pk_candidates = <<>>
  /\ cr_fk_pairs = <<>>
  /\ cr_join_cols = <<>>
  /\ written = NotWritten

Init ==
  /\ disk \in Corpora
  /\ call = <<>>
  /\ Fresh

Next ==
  \/ ScanFile
  \/ Phase2
  \/ ClusterBySheetName
  \/ ClusterByJaccard
  \/ ProfileSheet
  \/ Relate
  \/ Redundancy
  \/ Deliverables
  \/ CleanReport

Spec == Init /\ [][Next]_vars

(***************************************************************************)
(* jaccard on its own: both definitions applied to every pair of sets of   *)
(* up to JacNames names, in both argument orders                           *)
(***************************************************************************)

NameSets == SUBSET {<<LowerChars[i]>> : i \in 1..JacNames}

CallJaccard ==
  /\ pc = "jaccard"
  /\ call.op = "args"
  /\ call' = [op |-> "jaccard", a |-> call.a, b |-> call.b,
              v3_ab |-> jaccard(call.a, call.b), v3_ba |-> jaccard(call.b, call.a),
              as_ab |-> as_jaccard(call.a, call.b), as_ba |-> as_jaccard(call.b, call.a),
              pa_ab |-> pa_jaccard(call.a, call.b)]
  /\ UNCHANGED <<disk, pc, idx, phase1, errors_log, phase2_vars, phase3_vars,
                 deep_profiles, quality_issues, relate_vars, fp_vars, report_vars>>

InitJaccard ==
  /\ disk = <<>>
  /\ \E a \in NameSets, b \in NameSets : call = [op |-> "args", a |-> a, b |-> b]
  /\ idx = 1
  /\ phase1 = <<>>
  /\ errors_log = <<>>
  /\ norm_keys = <<>>
  /\ col_freq = EmptyMap
  /\ merged = EmptyMap
  /\ canonical_freq = EmptyMap
  /\ sheet_colsets = EmptyMap
  /\ assigned = EmptyMap
  /\ clusters = <<>>
  /\ deep_profiles = <<>>
  /\ quality_issues = <<>>
  /\ col_sheet_map = <<>>
  /\ pk_candidates = <<>>
  /\ fk_pairs = <<>>
  /\ join_clusters = <<>>
  /\ sheet_fps = <<>>
  /\ redundant = <<>>
  /\ data_dictionary = <<>>
  /\ cr_pk_candidates = <<>>
  /\ cr_fk_pairs = <<>>
  /\ cr_join_cols = <<>>
  /\ written = NotWritten
  /\ pc = "jaccard"

NextJaccard == CallJaccard

SpecJaccard == InitJaccard /\ [][NextJaccard]_vars

(***************************************************************************)
(* normalize_col on its own: both definitions applied once and twice to    *)
(* every name of up to MaxNameLen characters                               *)
(***************************************************************************)

\* The pipeline at rest while one function is exercised.
Idle ==
  /\ disk = <<>>
  /\ idx = 1
  /\ phase1 = <<>>
  /\ errors_log = <<>>
  /\ norm_keys = <<>>
  /\ col_freq = EmptyMap
  /\ merged = EmptyMap
  /\ canonical_freq = EmptyMap
  /\ sheet_colsets = EmptyMap
  /\ assigned = EmptyMap
  /\ clusters = <<>>
  /\ deep_profiles = <<>>
  /\ quality_issues = <<>>
  /\ col_sheet_map = <<>>
  /\ pk_candidates = <<>>
  /\ fk_pairs = <<>>
  /\ join_clusters = <<>>
  /\ sheet_fps = <<>>
  /\ redundant = <<>>
  /\ data_dictionary = <<>>
  /\ cr_pk_candidates = <<>>
  /\ cr_fk_pairs = <<>>
  /\ cr_join_cols = <<>>
  /\ written = NotWritten

MaxNameLen == 3

NameChars == {"A", "b", "1", " ", "_", "#"}

RECURSIVE Names(_)
Names(n) ==
  IF n = 0 THEN {<<>>}
  ELSE Names(n - 1) \cup {Append(front, c) : front \in Names(n - 1), c \in NameChars}

CallNormalize ==
  /\ pc = "normalize_col"
  /\ call.op = "args"
  /\ call' = [op |-> "normalize_col", name |-> call.name,
              v3 |-> normalize_col(call.name),
              v3_twice |-> normalize_col(normalize_col(call.name)),
              as |-> as_normalize_col(call.name),
              as_twice |-> as_normalize_col(as_normalize_col(call.name))]
  /\ UNCHANGED <<disk, pc, idx, phase1, errors_log, phase2_vars, phase3_vars,
                 deep_profiles, quality_issues, relate_vars, fp_vars, report_vars>>

InitNormalize ==
  /\ Idle
  /\ pc = "normalize_col"
  /\ \E name \in Names(MaxNameLen) : call = [op |-> "args", name |-> name]

NextNormalize == CallNormalize

SpecNormalize == InitNormalize /\ [][NextNormalize]_vars

(***************************************************************************)
(* analyze_spreadsheets: header detection on a raw preview                 *)
(* A preview is the rows read with header=None and dtype=str: a missing    *)
(* cell is NaN (<<>>), any other cell is its text.  Scores are in units of *)
(* 0.0001, the precision header_confidence rounds to.                      *)
(***************************************************************************)

HEADER_ROWS == 8
W_UNIQUE == 45
W_ALPHA == 35
W_BELOW == 20

\* One cell after astype(str).str.strip(): NaN becomes the text "nan".
CellStr(c) == StripChars(IF c = <<>> THEN <<"n","a","n">> ELSE c, {" "})

RowVals(row) == [i \in 1..Len(row) |-> CellStr(row[i])]

\* The regex [A-Za-z] finds a match in v.
HasAlpha(v) == \E i \in 1..Len(v) : v[i] \in Range(LowerChars) \cup Range(UpperChars)

\* header_confidence(df_preview, row_idx), row_idx counted from 0.
header_confidence(df_preview, row_idx) ==
  LET vals      == RowVals(df_preview[row_idx + 1])
      non_empty == SelectSeq(vals, LAMBDA v : v # <<>>)
      n         == Len(non_empty)
      nunique   == Cardinality(Range(non_empty))
      alpha     == Len(SelectSeq(non_empty, HasAlpha))
      has_below == row_idx + 1 < Len(df_preview)
      below     == IF has_below THEN RowVals(df_preview[row_idx + 2]) ELSE <<>>
      m         == Max(1, Len(below))
      filled    == Len(SelectSeq(below, LAMBDA v : v # <<>>))
  IN  IF n = 0 THEN 0
      ELSE RoundHalfEven(((W_UNIQUE * nunique + W_ALPHA * alpha) * m
                            + W_BELOW * filled * Max(1, n)) * 100,
                         Max(1, n) * m)

\* detect_header_row with max() keeping the last of several maximal rows.
detect_header_row_last(df_preview) ==
  LET max_rows == Min(HEADER_ROWS, Len(df_preview))
      scores   == [p \in 1..max_rows |-> <<p - 1, header_confidence(df_preview, p - 1)>>]
  IN  IF max_rows = 0 THEN <<0, 0>>
      ELSE Loop(LAMBDA p, best : IF scores[p][2] >= best[2] THEN scores[p] ELSE best,
                2, max_rows, scores[1])

\* detect_header_row(df_preview): max(scores, key=score) keeps the first of
\* several maximal rows; the result is <<row index from 0, score>>.
detect_header_row(df_preview) ==
  LET max_rows == Min(HEADER_ROWS, Len(df_preview))
      scores   == [p \in 1..max_rows |-> <<p - 1, header_confidence(df_preview, p - 1)>>]
  IN  IF max_rows = 0 THEN <<0, 0>>
      ELSE Loop(LAMBDA p, best : IF scores[p][2] > best[2] THEN scores[p] ELSE best,
                2, max_rows, scores[1])

MaxPreviewRows == 3

\* Rows of one cell and of three: labels, missing cells, blank text, repeated
\* values, numbers.
RowKinds ==
  LET nan == <<>>
      sp  == <<" ">>
      x   == <<"x">>
      y   == <<"y">>
      z   == <<"z">>
  IN  [w1 |-> { <<x>>, <<nan>>, <<sp>>, << <<"1">> >> },
       w3 |-> { <<x, y, z>>, <<nan, nan, nan>>, <<sp, sp, sp>>, <<nan, sp, sp>>,
                <<x, x, x>>, <<x, x, y>>, <<x, x, sp>>,
                << <<"1">>, <<"1">>, <<"1">> >>, << <<"1">>, <<"2">>, <<"3">> >>,
                <<x, <<"1">>, nan>> }]

RECURSIVE RowSeqs(_, _)
RowSeqs(rows, n) ==
  IF n = 0 THEN {<<>>}
  ELSE RowSeqs(rows, n - 1) \cup {Append(front, r) : front \in RowSeqs(rows, n - 1), r \in rows}

\* Previews around the candidate limit: one row of labels at position h
\* (from 2 on) among rows of one other kind, below a top row.
LongPreviews ==
  LET fillers == { << <<" ">>, <<" ">>, <<" ">> >>, << <<"1">>, <<"1">>, <<"1">> >> }
  IN  { [i \in 1..n |-> IF i = h THEN << <<"x">>, <<"y">>, <<"z">> >>
                        ELSE IF i = 1 THEN top ELSE filler] :
          n \in HEADER_ROWS..(HEADER_ROWS + 2), h \in 2..(HEADER_ROWS + 2),
          top \in fillers, filler \in fillers }

Previews == RowSeqs(RowKinds.w1, MaxPreviewRows) \cup RowSeqs(RowKinds.w3, MaxPreviewRows)
            \cup LongPreviews

CallDetectHeaderRow ==
  /\ pc = "detect_header_row"
  /\ call.op = "args"
  /\ call' = [op |-> "detect_header_row", df_preview |-> call.df_preview,
              scores |-> [p \in 1..Len(call.df_preview) |->
                            header_confidence(call.df_preview, p - 1)] \o <<>>,
              best |-> detect_header_row(call.df_preview)]
  /\ UNCHANGED <<disk, pc, idx, phase1, errors_log, phase2_vars, phase3_vars,
                 deep_profiles, quality_issues, relate_vars, fp_vars, report_vars>>

InitHeader ==
  /\ Idle
  /\ pc = "detect_header_row"
  /\ \E df_preview \in Previews : call = [op |-> "args", df_preview |-> df_preview]

NextHeader == CallDetectHeaderRow

SpecHeader == InitHeader /\ [][NextHeader]_vars

(***************************************************************************)
(* Pattern detection on one column: detect_patterns of phased_analyzer_v3  *)
(* (its incremental_id pattern) and the id_incremental count of            *)
(* analyze_spreadsheets                                                    *)
(***************************************************************************)

ID_MIN_DIGITS == 4
PATTERN_HEAD == 200
PATTERN_MIN_PCT == 15
ID_MIN_VALUES == 5
ID_DIFF_PCT == 75

\* PATTERN_MAP["incremental_id"].match(v.strip()): four digits or more.
MatchesIncrementalId(v) ==
  LET t == StripChars(v, {" "}) IN IsNumeral(t) /\ Len(t) >= ID_MIN_DIGITS

\* detect_patterns(series) of phased_analyzer_v3, restricted to the pattern
\* incremental_id: the hit rate in tenths of a percent when it is above
\* 15 %, no entry otherwise.
detect_patterns(series) ==
  LET non_null == Take(DropnaStr(series), PATTERN_HEAD)
      n        == Len(non_null)
      hits     == Len(SelectSeq(non_null, MatchesIncrementalId))
  IN  IF n = 0 THEN EmptyMap
      ELSE IF hits * 100 > PATTERN_MIN_PCT * n
      THEN "incremental_id" :> RoundHalfEven(hits * 1000, n)
      ELSE EmptyMap

\* int(v) for a numeral.
RECURSIVE DecVal(_)
DecVal(v) ==
  IF v = <<>> THEN 0
  ELSE 10 * DecVal(SubSeq(v, 1, Len(v) - 1))
       + (CHOOSE d \in 0..9 : DigitChars[d + 1] = v[Len(v)])

\* pd.to_numeric(non_null, errors="coerce").dropna().sort_values().values for
\* a column read as text.
NumVals(series) ==
  LET texts == [i \in 1..Len(series) |-> StripChars(series[i], {" "})]
      nums  == SelectSeq(texts, IsNumeral)
      vals  == [i \in 1..Len(nums) |-> DecVal(nums[i])]
  IN  [k \in 1..Len(vals) |->
         vals[CHOOSE i \in 1..Len(vals) :
                Cardinality({j \in 1..Len(vals) :
                               vals[j] < vals[i] \/ (vals[j] = vals[i] /\ j < i)}) = k - 1]]

\* The number of consecutive differences of num_vals that equal 1.
UnitDiffs(num_vals) ==
  Cardinality({k \in 1..(Len(num_vals) - 1) : num_vals[k + 1] - num_vals[k] = 1})

\* id_incremental of analyze_spreadsheets.detect_patterns.
as_id_incremental(series) ==
  LET num_vals == NumVals(series)
      diffs    == Len(num_vals) - 1
  IN  IF /\ Len(num_vals) > ID_MIN_VALUES
         /\ diffs > 0
         /\ UnitDiffs(num_vals) * 100 > ID_DIFF_PCT * diffs
      THEN Len(num_vals) ELSE 0

MaxSeries == 3

RECURSIVE SeriesOver(_, _)
SeriesOver(cells, n) ==
  IF n = 0 THEN {<<>>}
  ELSE SeriesOver(cells, n - 1)
       \cup {Append(front, c) : front \in SeriesOver(cells, n - 1), c \in cells}

\* Columns of up to MaxSeries cells, the runs 1..n and 1000..1000+n-1, runs
\* with gaps (6 and 7 unit differences out of 8), and 901..1150, longer than
\* the sample detect_patterns takes.
PatternSeries ==
  SeriesOver({<<>>, <<"1">>, <<"2">>, <<"1","0","0","0">>, <<"1","0","0","1">>, <<"x">>},
             MaxSeries)
  \cup {Cycle(n, n) : n \in 4..9}
  \cup {[i \in 1..n |-> DecStr(999 + i)] : n \in 4..9}
  \cup {[i \in 1..9 |-> DecStr(IF i <= 7 THEN i ELSE 2 * i - 7)],
        [i \in 1..9 |-> DecStr(IF i <= 8 THEN i ELSE 10)],
        [i \in 1..250 |-> DecStr(900 + i)]}

CallDetectPatterns ==
  /\ pc = "detect_patterns"
  /\ call.op = "args"
  /\ call' = [op |-> "detect_patterns", series |-> call.series,
              v3 |-> detect_patterns(call.series),
              as |-> as_id_incremental(call.series)]
  /\ UNCHANGED <<disk, pc, idx, phase1, errors_log, phase2_vars, phase3_vars,
                 deep_profiles, quality_issues, relate_vars, fp_vars, report_vars>>

InitPatterns ==
  /\ Idle
  /\ pc = "detect_patterns"
  /\ \E series \in PatternSeries : call = [op |-> "args", series |-> series]

NextPatterns == CallDetectPatterns

SpecPatterns == InitPatterns /\ [][NextPatterns]_vars

(***************************************************************************)
(* Properties                                                              *)
(***************************************************************************)

ClusteringDone == pc \in {"phase4", "redundancy", "deliverables", "clean_report", "done"}

\* The places <<cluster id, position>> where key k is a member.
MemberPlaces(k) ==
  {<<c, i>> \in (1..Len(clusters)) \X (1..Len(phase1)) :
     i <= Len(clusters[c].members) /\ clusters[c].members[i] = k}

\* C1: once both clustering passes have run, every scanned sheet key is a
\* member of exactly one cluster, exactly once, and assigned holds that
\* cluster's id for it.
C1_ClustersPartitionSheets ==
  ClusteringDone =>
    /\ \A c \in 1..Len(clusters) : Len(clusters[c].members) <= Len(phase1)
    /\ \A k \in Range(SheetKeys(phase1)) :
         /\ Cardinality(MemberPlaces(k)) = 1
         /\ k \in DOMAIN assigned
         /\ \E i \in 1..Len(phase1) : <<assigned[k], i>> \in MemberPlaces(k)

\* C1 witness: a sheet-name cluster beside a Jaccard cluster that grew to two
\* members.
C1_Witness ==
  /\ ClusteringDone
  /\ \E c \in 1..Len(clusters) : clusters[c].via = "sheet-name"
  /\ \E c \in 1..Len(clusters) :
       clusters[c].via = "jaccard" /\ Len(clusters[c].members) >= 2

JaccardCalled == pc = "jaccard" /\ call.op = "jaccard"

\* A fraction <<n, d>> that lies in [0, 1].
InUnitInterval(fr) == fr[2] > 0 /\ 0 <= fr[1] /\ fr[1] <= fr[2]

\* C10: both jaccard functions give the same value for (A, B) and (B, A), a
\* value in [0, 1], and 1 for (A, A) when A is not empty.
C10_JaccardSymmetricBounded ==
  JaccardCalled =>
    /\ call.v3_ab[1] * call.v3_ba[2] = call.v3_ba[1] * call.v3_ab[2]
    /\ call.as_ab[1] * call.as_ba[2] = call.as_ba[1] * call.as_ab[2]
    /\ InUnitInterval(call.v3_ab) /\ InUnitInterval(call.as_ab)
    /\ (call.a = call.b /\ call.a # {}) =>
         /\ call.v3_ab[1] = call.v3_ab[2]
         /\ call.as_ab[1] = call.as_ab[2]

\* C10 witness: jaccard applied to two different sets that overlap, neither
\* inside the other, with a value strictly between 0 and 1.
C10_Witness ==
  /\ JaccardCalled
  /\ call.a \ call.b # {} /\ call.b \ call.a # {} /\ call.a \cap call.b # {}
  /\ 0 < call.v3_ab[1] /\ call.v3_ab[1] < call.v3_ab[2]

RedundancyDone == pc \in {"deliverables", "clean_report", "done"}

\* Two records of phase1 at different positions.
RecordPairs == {<<i, j>> \in (1..Len(phase1)) \X (1..Len(phase1)) : i # j}

\* The canonical column set of record i (its names after the similar-name
\* merge), as Phase 3 keeps it.
CanonicalSet(i) == sheet_colsets[Key(phase1[i])]

\* The distinct non-empty normalized names of record i.
NormNames(i) == {n \in Range(phase1[i].norm_cols) : n # <<>>}

SameRedundancyGroup(i, j) ==
  \E g \in 1..Len(redundant) :
    {Key(phase1[i]), Key(phase1[j])} \subseteq Range(redundant[g].members)

\* One column more on one side, or one column replaced by another.
DiffersByOne(A, B) ==
  A # B /\ Cardinality(A \ B) <= 1 /\ Cardinality(B \ A) <= 1

\* C2: after the fingerprint grouping, any two sheets with identical
\* canonical column sets are together in one redundancy group.
C2_IdenticalCanonicalSetsGrouped ==
  RedundancyDone =>
    \A ij \in RecordPairs :
      CanonicalSet(ij[1]) = CanonicalSet(ij[2]) => SameRedundancyGroup(ij[1], ij[2])

\* C3 as stated: two sheets whose canonical column sets differ by exactly
\* one column are never in the same redundancy group, whatever their width.
C3_DifferByOneNeverGrouped ==
  RedundancyDone =>
    \A ij \in RecordPairs :
      DiffersByOne(CanonicalSet(ij[1]), CanonicalSet(ij[2]))
        => ~SameRedundancyGroup(ij[1], ij[2])

\* C3 amended: two sheets whose canonical column sets differ by exactly one
\* column, each with at most FP_NAMES distinct non-empty normalized names, are
\* never in the same redundancy group.
C3_DifferByOneWithinCap ==
  RedundancyDone =>
    \A ij \in RecordPairs :
      /\ DiffersByOne(CanonicalSet(ij[1]), CanonicalSet(ij[2]))
      /\ Cardinality(NormNames(ij[1])) <= FP_NAMES
      /\ Cardinality(NormNames(ij[2])) <= FP_NAMES
      => ~SameRedundancyGroup(ij[1], ij[2])

\* C3 witness: a sheet of FP_NAMES names beside one of FP_NAMES - 1, after
\* the grouping, in different groups.
C3_Witness ==
  /\ RedundancyDone
  /\ \E ij \in RecordPairs :
       /\ DiffersByOne(CanonicalSet(ij[1]), CanonicalSet(ij[2]))
       /\ Cardinality(NormNames(ij[1])) = FP_NAMES
       /\ Cardinality(NormNames(ij[2])) = FP_NAMES - 1
       /\ ~SameRedundancyGroup(ij[1], ij[2])

RelateDone == pc \in {"redundancy", "deliverables", "clean_report", "done"}

\* The PK candidate locations listed for a column, none when it has no entry.
PkListOf(column) ==
  IF \E i \in 1..Len(pk_candidates) : pk_candidates[i][1] = column
  THEN pk_candidates[CHOOSE i \in 1..Len(pk_candidates) : pk_candidates[i][1] = column][2]
  ELSE <<>>

\* The FK-side locations of the edges listed for a column.
FkSidesOf(column) ==
  {<<fk_pairs[i].fk_file, fk_pairs[i].fk_sheet, fk_pairs[i].fk_uniq>> :
     i \in {i \in 1..Len(fk_pairs) : fk_pairs[i].column = column}}

\* The columns found in at least two locations.
Recurring == {e \in Range(col_sheet_map) : Len(e.locs) >= 2}

AtBoundary(l) == l[3] = PK_UNIQ_PCT * 10
LowLocs(e) == {l \in Range(e.locs) : l[3] <= PK_UNIQ_PCT * 10}

\* C4: a location at exactly 70.0% is not among the PK candidates of its
\* column and is on the FK side whenever the column has a PK candidate; the
\* PK candidates and the locations at or below 70.0% are disjoint and
\* together are all the locations of the column.
C4_BoundaryIsLow ==
  RelateDone =>
    \A e \in Recurring :
      /\ \A l \in Range(e.locs) : AtBoundary(l) =>
           /\ l \notin Range(PkListOf(e.column))
           /\ PkListOf(e.column) # <<>> => l \in FkSidesOf(e.column)
      /\ Range(PkListOf(e.column)) \cap LowLocs(e) = {}
      /\ Range(PkListOf(e.column)) \cup LowLocs(e) = Range(e.locs)
      /\ PkListOf(e.column) # <<>> => FkSidesOf(e.column) = LowLocs(e)

\* C4 witness: a column with one location at exactly 70.0% (7 distinct values
\* in 10 rows) and another that is a PK candidate.
C4_Witness ==
  /\ RelateDone
  /\ \E e \in Recurring :
       /\ \E l \in Range(e.locs) : AtBoundary(l)
       /\ PkListOf(e.column) # <<>>

\* The cells the deep read holds for the column of a profile.
SeriesOf(p) ==
  LET sh == DiskSheet([file |-> p.file, sheet |-> p.sheet])
  IN  Take(sh.cols[IndexOf(PandasColumns(sh.header), p.column)], DEEP_ROWS)

\* The profiles of the columns found in at least two locations.
RecurringProfiles ==
  {p \in Range(deep_profiles) : \E e \in Recurring : e.column = p.norm_col}

\* C5: for a column found in at least two locations, every location whose
\* ratio of distinct values to rows is strictly above 0.70 is among the PK
\* candidates of the column.
C5_RatioAbove70IsPk ==
  RelateDone =>
    \A p \in RecurringProfiles :
      NUnique(SeriesOf(p)) * 100 > PK_UNIQ_PCT * Len(SeriesOf(p))
        => <<p.file, p.sheet, p.uniqueness_pct>> \in Range(PkListOf(p.norm_col))

\* C6: a profiled column whose non-null cells are pairwise distinct (and that
\* has one at least) has uniqueness 100%, whatever its null cells.
C6_DistinctNonNullIsFull ==
  \A p \in Range(deep_profiles) :
    (NonNull(SeriesOf(p)) >= 1 /\ NUnique(SeriesOf(p)) = NonNull(SeriesOf(p)))
      => p.uniqueness_pct = 1000

\* The one column of data of a file that holds one sheet of one column.
OnlyColumn(f) == disk[f].sheets[1].cols[1]

OneColumnFile(f) ==
  /\ Len(disk[f].sheets) = 1
  /\ Len(disk[f].sheets[1].header) = 1
  /\ disk[f].sheets[1].header[1] # <<>>

\* Scenario A between files a and b: the same column name in both, n
\* distinct values over n rows in a, the same values each 2 or 3 times in b.
ScenarioA(a, b) ==
  /\ Len(disk) = 2 /\ a # b
  /\ OneColumnFile(a) /\ OneColumnFile(b)
  /\ normalize_col(safe_str(disk[a].sheets[1].header[1]))
       = normalize_col(safe_str(disk[b].sheets[1].header[1]))
  /\ Len(OnlyColumn(a)) >= 1
  /\ <<>> \notin Range(OnlyColumn(a))
  /\ Cardinality(Range(OnlyColumn(a))) = Len(OnlyColumn(a))
  /\ Len(OnlyColumn(b)) >= 2 * Len(OnlyColumn(a))
  /\ Len(OnlyColumn(b)) <= 3 * Len(OnlyColumn(a))
  /\ Range(OnlyColumn(b)) = Range(OnlyColumn(a))
  /\ \A v \in Range(OnlyColumn(a)) : Count(OnlyColumn(b), v) \in {2, 3}

\* The positions in fk_pairs of the edges of a column.
EdgesOf(column) == {i \in 1..Len(fk_pairs) : fk_pairs[i].column = column}

\* What Scenario A is said to give: a's location a PK candidate at 100%, and
\* one FK edge for the column, from a's location to b's.
ScenarioAResult(a, b) ==
  LET column == normalize_col(safe_str(disk[a].sheets[1].header[1]))
      sheet(f) == IF IsWorkbook(disk[f]) THEN disk[f].sheets[1].sheet ELSE "(csv)"
  IN  /\ <<disk[a].name, sheet(a), 1000>> \in Range(PkListOf(column))
      /\ Cardinality(EdgesOf(column)) = 1
      /\ \A i \in EdgesOf(column) :
           /\ fk_pairs[i].pk_file = disk[a].name /\ fk_pairs[i].pk_sheet = sheet(a)
           /\ fk_pairs[i].fk_file = disk[b].name /\ fk_pairs[i].fk_sheet = sheet(b)

\* C7 as stated: Scenario A for any n gives the PK candidate at 100% and
\* exactly one FK edge from the first location to the second.
C7_ScenarioAnyN ==
  RelateDone =>
    \A a \in 1..Len(disk), b \in 1..Len(disk) :
      ScenarioA(a, b) => ScenarioAResult(a, b)

\* A one-column file whose rows one deep read takes in full.
WithinDeepRows(f) == OneColumnFile(f) /\ Len(OnlyColumn(f)) <= DEEP_ROWS

\* C7 amended: the same, when the second sheet has at most DEEP_ROWS rows.
C7_ScenarioWithinDeepRows ==
  RelateDone =>
    \A a \in 1..Len(disk), b \in 1..Len(disk) :
      (WithinDeepRows(b) /\ ScenarioA(a, b)) => ScenarioAResult(a, b)

\* C7 witness: Scenario A itself, 17 values over 17 rows and over 40 rows,
\* with its FK edge listed.
C7_Witness ==
  /\ RelateDone
  /\ \E a \in 1..Len(disk), b \in 1..Len(disk) :
       /\ ScenarioA(a, b)
       /\ Len(OnlyColumn(a)) = 17 /\ Len(OnlyColumn(b)) = 40
       /\ ScenarioAResult(a, b)

\* The positions in deep_profiles of the high and of the low locations of a
\* column.
HighProfiles(column) ==
  {i \in 1..Len(deep_profiles) :
     deep_profiles[i].norm_col = column /\ deep_profiles[i].uniqueness_pct > PK_UNIQ_PCT * 10}

LowProfiles(column) ==
  {i \in 1..Len(deep_profiles) :
     deep_profiles[i].norm_col = column /\ deep_profiles[i].uniqueness_pct <= PK_UNIQ_PCT * 10}

ProfiledColumns == {deep_profiles[i].norm_col : i \in 1..Len(deep_profiles)} \ {<<>>}

\* fk_pairs holds an edge for every (high, low) pair of the column, and no
\* more edges than pairs.
EveryPairAnEdge(column) ==
  /\ Cardinality(EdgesOf(column))
       = Cardinality(HighProfiles(column)) * Cardinality(LowProfiles(column))
  /\ \A h \in HighProfiles(column), l \in LowProfiles(column) :
       \E i \in EdgesOf(column) :
         /\ fk_pairs[i].pk_file = deep_profiles[h].file
         /\ fk_pairs[i].pk_sheet = deep_profiles[h].sheet
         /\ fk_pairs[i].fk_file = deep_profiles[l].file
         /\ fk_pairs[i].fk_sheet = deep_profiles[l].sheet

\* The positions in clean_report's fk_pairs of the edges of a column, and the
\* files the column is found in.
CrEdgesOf(column) == {i \in 1..Len(cr_fk_pairs) : cr_fk_pairs[i].col = column}

FilesOf(column) ==
  {deep_profiles[i].file : i \in {i \in 1..Len(deep_profiles) :
                                    deep_profiles[i].norm_col = column}}

C9_JoinColumnsSpanFiles ==
  RelateDone =>
    \A i \in 1..Len(join_clusters) : Cardinality(join_clusters[i].files) >= 2


\* C11: the Jaccard index of two empty sets is one fixed value, the same in
\* every jaccard of the scripts (phased_analyzer_v3, phased_analyzer and
\* analyze_spreadsheets).
C11_EmptySetsOneConstant ==
  (JaccardCalled /\ call.a = {} /\ call.b = {})
    => (call.v3_ab = call.as_ab /\ call.pa_ab = call.as_ab)

\* The keys the sheet-name pass placed, and those it left to the Jaccard
\* pass, in processing order.
NamePlaced ==
  UNION {Range(clusters[c].members) :
           c \in {d \in 1..Len(clusters) : clusters[d].via = "sheet-name"}}

Remaining == SelectSeq(SheetKeys(phase1), LAMBDA k : k \notin NamePlaced)

\* Two different sheet keys whose canonical column sets overlap by at least
\* CLUSTER_OVERLAP.
Overlapping(k1, k2) ==
  /\ k1 # k2
  /\ AtLeast(jaccard(sheet_colsets[k1], sheet_colsets[k2]), CLUSTER_OVERLAP)

SameCluster(k1, k2) ==
  \E c \in 1..Len(clusters) : {k1, k2} \subseteq Range(clusters[c].members)

FirstTwoRemaining(k1, k2) ==
  Len(Remaining) >= 2 /\ {k1, k2} = {Remaining[1], Remaining[2]}

\* C12 as stated: after clustering, any two sheets whose canonical column
\* sets have a Jaccard index of at least 0.40 are in the same cluster,
\* whatever other sheets the corpus holds and wherever they stand in the
\* processing order.
C12_OverlappingSheetsCluster ==
  ClusteringDone =>
    \A k1 \in Range(SheetKeys(phase1)), k2 \in Range(SheetKeys(phase1)) :
      Overlapping(k1, k2) => SameCluster(k1, k2)

\* C12 amended: two sheets whose canonical column sets have a Jaccard index
\* of at least 0.40 are in the same cluster when they are the only two sheets
\* of the corpus, or the first two sheets in processing order among those
\* the sheet-name pass left unassigned.
C12_OverlappingFirstTwoCluster ==
  ClusteringDone =>
    \A k1 \in Range(SheetKeys(phase1)), k2 \in Range(SheetKeys(phase1)) :
      (/\ Overlapping(k1, k2)
       /\ \/ Len(SheetKeys(phase1)) = 2
          \/ FirstTwoRemaining(k1, k2))
        => SameCluster(k1, k2)

\* C12 witness: {a,b,c} and {a,b,c,d} (index 0.75) as the first two sheets of
\* the Jaccard pass, in one cluster.
C12_Witness ==
  /\ ClusteringDone
  /\ \E k1 \in Range(SheetKeys(phase1)), k2 \in Range(SheetKeys(phase1)) :
       /\ Overlapping(k1, k2)
       /\ FirstTwoRemaining(k1, k2)
       /\ sheet_colsets[k1] = {<<"a">>, <<"b">>, <<"c">>}
       /\ sheet_colsets[k2] = {<<"a">>, <<"b">>, <<"c">>, <<"d">>}
       /\ SameCluster(k1, k2)

NormalizeCalled == pc = "normalize_col" /\ call.op = "normalize_col"

\* C13: normalize_col is idempotent, in phased_analyzer_v3 and in
\* analyze_spreadsheets: normalizing a normalized name gives it back.
C13_NormalizeIdempotent ==
  NormalizeCalled => (call.v3_twice = call.v3 /\ call.as_twice = call.as)

\* C13 witness: a name that both definitions change, each in its own way.
C13_Witness ==
  /\ NormalizeCalled
  /\ call.v3 # call.name
  /\ call.as # call.name
  /\ call.v3 # call.as
  /\ call.v3 # <<>>

HeaderCalled == pc = "detect_header_row" /\ call.op = "detect_header_row"

\* The candidate rows of the called preview, as positions from 1.
Candidates == 1..Min(HEADER_ROWS, Len(call.df_preview))

\* C14: detect_header_row returns the index of a candidate row whose
\* header_confidence is maximal among the candidate rows, the smallest such
\* index when several rows reach the maximum, with that row's score; for an
\* empty preview it returns (0, 0.0).
C14_ArgmaxSmallestIndex ==
  HeaderCalled =>
    IF call.df_preview = <<>> THEN call.best = <<0, 0>>
    ELSE /\ call.best[1] + 1 \in Candidates
         /\ call.best[2] = call.scores[call.best[1] + 1]
         /\ \A p \in Candidates : call.scores[p] <= call.best[2]
         /\ \A p \in Candidates : p < call.best[1] + 1 => call.scores[p] < call.best[2]

\* C14 witness: the maximum is reached by a row that is not the first and
\* again by a later candidate row, and a row past the candidate limit scores
\* higher than all of them.
C14_Witness ==
  /\ HeaderCalled
  /\ call.best[1] >= 1
  /\ \E p \in Candidates : p > call.best[1] + 1 /\ call.scores[p] = call.best[2]
  /\ \E p \in 1..Len(call.df_preview) : p \notin Candidates /\ call.scores[p] > call.best[2]

\* Row kinds of a preview as the files hold them: a missing cell (<<>>) and
\* blank text are empty cells.
EmptyCell(c) == StripChars(c, {" "}) = <<>>

AllEmptyRow(row) == \A i \in 1..Len(row) : EmptyCell(row[i])

NonUniqueRow(row) ==
  \E i \in 1..Len(row), j \in 1..Len(row) :
    i # j /\ ~EmptyCell(row[i]) /\ StripChars(row[i], {" "}) = StripChars(row[j], {" "})

LabelRow(row) ==
  /\ \A i \in 1..Len(row) : ~EmptyCell(row[i]) /\ HasAlpha(row[i])
  /\ \A i \in 1..Len(row), j \in 1..Len(row) :
       i # j => StripChars(row[i], {" "}) # StripChars(row[j], {" "})

\* Candidate row h is the one row of labels and every other candidate row is
\* all-empty or non-unique.
TrueHeader(h) ==
  /\ LabelRow(call.df_preview[h])
  /\ \A p \in Candidates \ {h} :
       AllEmptyRow(call.df_preview[p]) \/ NonUniqueRow(call.df_preview[p])

\* C15: when one candidate row holds pairwise-distinct alphabetic labels and
\* every other candidate row is all-empty or holds non-unique values, the
\* label row's header_confidence is strictly greater than every other
\* candidate's and detect_header_row returns it, wherever it sits.
C15_TrueHeaderWins ==
  HeaderCalled =>
    \A h \in Candidates :
      TrueHeader(h) =>
        /\ \A p \in Candidates \ {h} : call.scores[h] > call.scores[p]
        /\ call.best[1] = h - 1

\* Two or more non-empty cells, all holding the same value.
SameValueRow(row) ==
  LET non_empty == SelectSeq(RowVals(row), LAMBDA v : v # <<>>)
  IN  Len(non_empty) >= 2 /\ Cardinality(Range(non_empty)) = 1

\* C16: a candidate row whose non-empty cells all hold the same value, two
\* cells or more, scores at most 0.35 + 0.20 = 0.55 (its uniqueness term being
\* 0).
C16_SameValueRowAtMost055 ==
  HeaderCalled =>
    \A p \in Candidates :
      SameValueRow(call.df_preview[p]) => call.scores[p] <= (W_ALPHA + W_BELOW) * 100

PatternsCalled == pc = "detect_patterns" /\ call.op = "detect_patterns"

\* More than 5 numeric values, and at least 75 % of the consecutive
\* differences of the sorted values equal to 1.
IncrementingIds(series) ==
  LET num_vals == NumVals(series)
  IN  /\ Len(num_vals) > ID_MIN_VALUES
      /\ UnitDiffs(num_vals) * 100 >= ID_DIFF_PCT * (Len(num_vals) - 1)

\* C17: for a column holding 1..n with n > 5, detect_patterns of
\* phased_analyzer_v3 reports incremental_id with a hit rate of 100 %; and it
\* reports the pattern exactly when the column has more than 5 numeric
\* values of which at least 75 % of the consecutive sorted differences are 1.
C17_IncrementalIdBySortedDifferences ==
  PatternsCalled =>
    /\ (\E n \in 6..Len(call.series) : call.series = Cycle(n, n))
         => ("incremental_id" \in DOMAIN call.v3 /\ call.v3["incremental_id"] = 1000)
    /\ ("incremental_id" \in DOMAIN call.v3) <=> IncrementingIds(call.series)

DeliverablesWritten == written.files # {}

\* The containment events of a run, counted on the corpus: files that fail to
\* open, sheets that fail to scan, recorded sheets that fail the deep read,
\* and columns of a sheet read whose profiling fails.
FileFailures ==
  {f \in 1..Len(disk) :
     \/ IsWorkbook(disk[f]) /\ ~disk[f].readable
     \/ IsDelimited(disk[f]) /\ DelimitedFails(disk[f])}

SheetFailures ==
  UNION {{<<f, t>> : t \in {u \in 1..Len(disk[f].sheets) : ~disk[f].sheets[u].scans}} :
           f \in {g \in 1..Len(disk) : IsWorkbook(disk[g]) /\ disk[g].readable}}

DeepReadFailures == {i \in 1..Len(phase1) : ~DiskSheet(phase1[i]).reads}

ColumnFailures ==
  UNION {{<<i, c>> : c \in DiskSheet(phase1[i]).bad_cols
                            \cap Range(ColsToProfile(phase1[i], DiskSheet(phase1[i]).cols))} :
           i \in {j \in 1..Len(phase1) : DiskSheet(phase1[j]).reads}}

\* C18: every contained failure (file open, sheet scan, deep read, column
\* profiling) adds exactly one entry to errors_log, so the "Errors / skipped"
\* count of the deliverables is the number of containment events.
C18_ErrorsCountContainments ==
  DeliverablesWritten =>
    written.errors_skipped = Cardinality(FileFailures) + Cardinality(SheetFailures)
                             + Cardinality(DeepReadFailures) + Cardinality(ColumnFailures)

\* File f of the corpus has been scanned; record i has been profiled.
Scanned(f) == pc # "phase1" \/ idx > f
Profiled(i) ==
  pc \in {"redundancy", "deliverables", "clean_report", "done"} \/ (pc = "phase4" /\ idx > i)

HasRecord(file, sheet) ==
  \E i \in 1..Len(phase1) : phase1[i].file = file /\ phase1[i].sheet = sheet

\* Every sheet that scans, of every file that opens, is recorded once its
\* file has been scanned, whatever failed beside it.
UnitsRecorded ==
  \A f \in 1..Len(disk) :
    Scanned(f) =>
      /\ (IsWorkbook(disk[f]) /\ disk[f].readable) =>
           \A s \in 1..Len(disk[f].sheets) :
             disk[f].sheets[s].scans => HasRecord(disk[f].name, disk[f].sheets[s].sheet)
      /\ (IsDelimited(disk[f]) /\ ~DelimitedFails(disk[f])) =>
           HasRecord(disk[f].name, "(csv)")

\* Every column to profile whose profiling does not fail, of every recorded
\* sheet that reads, has its profile once its sheet has been profiled.
ColumnsProfiled ==
  \A i \in 1..Len(phase1) :
    (Profiled(i) /\ DiskSheet(phase1[i]).reads) =>
      LET sh     == DiskSheet(phase1[i])
          labels == PandasColumns(sh.header)
          todo   == ColsToProfile(phase1[i], sh.cols)
      IN  \A t \in 1..Len(todo) :
            todo[t] \notin sh.bad_cols =>
              \E p \in Range(deep_profiles) :
                /\ p.file = phase1[i].file
                /\ p.sheet = phase1[i].sheet
                /\ p.column = labels[todo[t]]

IsPrefix(s, t) == Len(s) <= Len(t) /\ SubSeq(t, 1, Len(s)) = s

\* A step on a file of Phase 1 or a record of Phase 4, failed or not, moves
\* to the next one in the same phase, and no step discards a record, a
\* profile or a message already there.
StepsToNextUnit ==
  /\ (pc = "phase1" /\ idx <= Len(disk)) => (pc' = "phase1" /\ idx' = idx + 1)
  /\ (pc = "phase4" /\ idx <= Len(phase1)) => (pc' = "phase4" /\ idx' = idx + 1)
  /\ IsPrefix(phase1, phase1')
  /\ IsPrefix(deep_profiles, deep_profiles')
  /\ IsPrefix(errors_log, errors_log')

\* The run is not ended short of the deliverables.
NotAborted == pc # "aborted" /\ (pc = "done" => DeliverablesWritten)

\* C19: a failure of one unit (a file, a sheet, a deep read, a column) never
\* aborts its siblings or the run: every unit that does not fail is recorded
\* and profiled, every step goes on to the next unit, and the run is not
\* ended short of the deliverables.
C19_FailuresContained ==
  /\ [](UnitsRecorded /\ ColumnsProfiled /\ NotAborted)
  /\ [][StepsToNextUnit]_vars

\* Past Phase 1: the corpus-wide phases and the deliverables.
Aggregating ==
  pc \in {"phase3", "phase3_jaccard", "phase4", "redundancy", "deliverables",
          "clean_report", "done"}

\* C20: with no spreadsheet file to read (an empty or invalid root) the run
\* of phased_analyzer_v3 stops with a fatal configuration error: it never
\* enters aggregation and writes no deliverable.
C20_NoFilesIsFatal ==
  disk = <<>> => (~Aggregating /\ ~DeliverablesWritten)

(***************************************************************************)
(* Order of the phases                                                     *)
(***************************************************************************)

\* Record i has been taken up by a corpus-wide reduction: its names are in
\* the merge, or it has been placed in a cluster.
Reduced(i) ==
  \/ Key(phase1[i]) \in DOMAIN assigned
  \/ \E n \in Range(phase1[i].norm_cols) : n \in Range(norm_keys)

\* C21: the corpus-wide reductions (merge, clustering, classification,
\* relationship detection) take up a sheet only after its per-sheet
\* profiling has finished: no sheet is merged or clustered before its
\* columns have been profiled.
C21_ReductionsAfterProfiling ==
  \A i \in 1..Len(phase1) : Reduced(i) => Profiled(i)

(***************************************************************************)
(* phased_analyzer_v3.infer_dtype called directly                          *)
(***************************************************************************)

\* Columns of up to MaxSeries cells over missing, "0", "1", boolean words, a
\* decimal and a word; 19 and 18 boolean words out of 20; and 250 cells, more
\* than the sample.
DtypeSeries ==
  SeriesOver({<<>>, <<"0">>, <<"1">>, <<"t","r","u","e">>, <<"N","o">>, <<"x">>,
              <<"1",".","5">>}, MaxSeries)
  \cup {[i \in 1..20 |-> IF i <= n THEN <<"y","e","s">> ELSE <<"x">>] : n \in {18, 19}}
  \cup {[i \in 1..20 |-> IF i <= 19 THEN DecStr(i % 2) ELSE <<"x">>]}
  \cup {[i \in 1..250 |-> IF i <= DTYPE_HEAD THEN <<"n","o">> ELSE <<"x">>]}

CallInferDtype ==
  /\ pc = "infer_dtype"
  /\ call.op = "args"
  /\ call' = [op |-> "infer_dtype", series |-> call.series,
              dtype |-> infer_dtype(call.series)]
  /\ UNCHANGED <<disk, pc, idx, phase1, errors_log, phase2_vars, phase3_vars,
                 deep_profiles, quality_issues, relate_vars, fp_vars, report_vars>>

InitDtype ==
  /\ Idle
  /\ pc = "infer_dtype"
  /\ \E series \in DtypeSeries : call = [op |-> "args", series |-> series]

NextDtype == CallInferDtype

SpecDtype == InitDtype /\ [][NextDtype]_vars

DtypeCalled == pc = "infer_dtype" /\ call.op = "infer_dtype"

BooleanLiterals == BoolWords \cup {<<"0">>, <<"1">>}

\* The sampled non-empty values of the column that are boolean literals.
BooleanHits(series) ==
  SelectSeq(DtypeSample(series), LAMBDA v : ToLower(v) \in BooleanLiterals)

\* C22: infer_dtype returns "boolean" for every column in which at least
\* 95 % of the sampled non-empty values are among true, false, yes, no, 0
\* and 1 - columns of only "0" and "1" included: the boolean rule goes
\* before the numeric one.
C22_BooleanBeforeNumeric ==
  DtypeCalled =>
    LET sample == DtypeSample(call.series)
    IN  (sample # <<>> /\ Len(BooleanHits(call.series)) * 100 >= 95 * Len(sample))
          => call.dtype = "boolean"

(***************************************************************************)
(* The similar-name merge                                                  *)
(***************************************************************************)

Merging == pc # "phase1" /\ pc # "aborted"

\* The positions before j of the names that are no aliases and similar to
\* norm_keys[j].
CanonicalsBefore(j) ==
  {i \in 1..(j - 1) : /\ norm_keys[i] \notin DOMAIN merged
                      /\ Similar(norm_keys[i], norm_keys[j])}

Least(S) == CHOOSE i \in S : \A k \in S : i <= k

\* C23: the merge is the greedy single pass over the names in order of first
\* appearance: a name is an alias of c exactly when c is the earliest name
\* before it that is not itself an alias and is similar to it (ratio >=
\* 0.80); otherwise it stays its own canonical. Nothing is merged
\* transitively.
C23_GreedySinglePassMerge ==
  Merging =>
    \A j \in 1..Len(norm_keys) :
      IF CanonicalsBefore(j) = {}
      THEN norm_keys[j] \notin DOMAIN merged
      ELSE /\ norm_keys[j] \in DOMAIN merged
           /\ merged[norm_keys[j]] = norm_keys[Least(CanonicalsBefore(j))]

\* A name similar to an earlier alias, and to no canonical before it, stays
\* canonical.
C23_Witness ==
  /\ Merging
  /\ \E i, j \in 1..Len(norm_keys) :
       /\ i < j
       /\ norm_keys[i] \in DOMAIN merged
       /\ Similar(norm_keys[i], norm_keys[j])
       /\ norm_keys[j] \notin DOMAIN merged

\* After Phase 2 no canonical name is an alias, every name has one canonical
\* identity (itself or its canonical, which is its own), and the merged
\* frequencies add up to the raw ones.
MergeOneLevel ==
  Merging =>
    /\ \A k \in DOMAIN merged : merged[k] \notin DOMAIN merged
    /\ \A k \in Range(norm_keys) : Canon(merged, Canon(merged, k)) = Canon(merged, k)
    /\ DOMAIN canonical_freq = Range(norm_keys) \ DOMAIN merged
    /\ SumOver(canonical_freq, DOMAIN canonical_freq) = SumOver(col_freq, DOMAIN col_freq)

\* Once Phase 2 is over no step changes merged.
MergedKept == pc # "phase1" => merged' = merged

\* C29: after the Phase 2 merge no canonical name is itself an alias (every
\* value of merged is absent from its keys), so one lookup gives each name
\* its one canonical identity; the canonical frequencies sum to the raw
\* column frequencies; and merged is not modified once clustering begins.
C29_MergedIsOneLevelAndFrozen ==
  /\ []MergeOneLevel
  /\ [][MergedKept]_vars

\* Clustering is over in a corpus where names were merged.
C29_Witness ==
  /\ ClusteringDone
  /\ DOMAIN merged # {}
  /\ DOMAIN canonical_freq # DOMAIN col_freq

(***************************************************************************)
(* Classification                                                          *)
(***************************************************************************)

Debit == <<"d","e","b","i","t">>
Credit == <<"c","r","e","d","i","t">>

FinancialLedgerLabels ==
  {"Financial Ledger", "Financial Ledger Pattern - Debit/Credit columns"}

\* C24: the cluster classifier applies its precedence overrides before any
\* scoring: a cluster whose union of columns holds both a debit and a credit
\* column is labelled Financial Ledger.
C24_DebitCreditIsFinancialLedger ==
  ClusteringDone =>
    \A c \in 1..Len(clusters) :
      {Debit, Credit} \subseteq clusters[c].union_cols
        => clusters[c].label \in FinancialLedgerLabels

(***************************************************************************)
(* Relationship detection: the identity and the locations of a column      *)
(***************************************************************************)

\* The (file, sheet) locations of the col_sheet_map entry of a column.
LocationsOf(e) == {<<l[1], l[2]>> : l \in Range(e.locs)}

\* Two profiled columns are grouped: one entry of col_sheet_map holds the
\* locations of both.
GroupedLocations(p, q) ==
  \E i \in 1..Len(col_sheet_map) :
    /\ col_sheet_map[i].column \in {p.norm_col, q.norm_col}
    /\ {<<p.file, p.sheet>>, <<q.file, q.sheet>>} \subseteq LocationsOf(col_sheet_map[i])

\* C26: relationship detection groups the locations of a column by its
\* canonical identity: an alias and the canonical it was merged into in
\* Phase 2 are one column, their locations in one group.
C26_LocationsGroupedByCanonical ==
  RelateDone =>
    \A p, q \in Range(deep_profiles) :
      (/\ p.norm_col # <<>>
       /\ q.norm_col # <<>>
       /\ Canon(merged, p.norm_col) = Canon(merged, q.norm_col))
        => GroupedLocations(p, q)

\* C28: no FK edge has the same (file, sheet) as its PK and its FK location,
\* and a column is considered a PK, FK or join column only when it occurs in
\* two distinct (file, sheet) locations or more - also when one sheet has
\* several raw headers that normalize to the same name.
C28_EdgesSpanDistinctSheets ==
  RelateDone =>
    /\ \A i \in 1..Len(fk_pairs) :
         <<fk_pairs[i].pk_file, fk_pairs[i].pk_sheet>>
           # <<fk_pairs[i].fk_file, fk_pairs[i].fk_sheet>>
    /\ \A e \in Range(col_sheet_map) :
         (\/ \E i \in 1..Len(pk_candidates) : pk_candidates[i][1] = e.column
          \/ \E i \in 1..Len(fk_pairs) : fk_pairs[i].column = e.column
          \/ \E i \in 1..Len(join_clusters) : join_clusters[i].column = e.column)
           => Cardinality(LocationsOf(e)) >= 2

(***************************************************************************)
(* Columns without a name                                                  *)
(***************************************************************************)

\* The columns that relationship detection names.
RelatedColumns ==
  {col_sheet_map[i].column : i \in 1..Len(col_sheet_map)}
  \cup {pk_candidates[i][1] : i \in 1..Len(pk_candidates)}
  \cup {fk_pairs[i].column : i \in 1..Len(fk_pairs)}
  \cup {join_clusters[i].column : i \in 1..Len(join_clusters)}

\* C27: a column whose normalized name is empty is left out of relationship
\* and quality analysis: it is never in col_sheet_map, never a PK, FK or join
\* column, and never the subject of a null-heavy or mixed-type quality
\* issue.
C27_UnnamedColumnsLeftOut ==
  /\ <<>> \notin RelatedColumns
  /\ \A i \in 1..Len(quality_issues) : normalize_col(quality_issues[i].column) # <<>>

(***************************************************************************)
(* analyze_spreadsheets.main: clustering of the files                      *)
(***************************************************************************)

FILE_SIM_PCT == 55

ClusterFileNames == <<"f1", "f2", "f3">>

\* The files of unassigned that go with the seed: jaccard of their header
\* sets with the seed's (never with the group's) at 0.55 or more.
ToAdd(file_to_headers, seed, unassigned) ==
  {other \in unassigned \ {seed} :
     AtLeast(as_jaccard(file_to_headers[seed], file_to_headers[other]), FILE_SIM_PCT)}

\* The orders in which a set can be iterated.
Orders(S) == {q \in [1..Cardinality(S) -> S] : Range(q) = S}

\* One round of the while loop: the seed is the file that iter(unassigned)
\* gives first, which for a set of strings is any of them; the others follow
\* in the order of list(unassigned).
ClusterFilesRound ==
  /\ pc = "cluster_files"
  /\ call.unassigned # {}
  /\ \E seed \in call.unassigned :
       \E rest \in Orders(ToAdd(call.file_to_headers, seed, call.unassigned)) :
         call' = [call EXCEPT !.unassigned = (@ \ {seed}) \ Range(rest),
                              !.clusters = Append(@, <<seed>> \o rest)]
  /\ UNCHANGED <<disk, pc, idx, phase1, errors_log, phase2_vars, phase3_vars,
                 deep_profiles, quality_issues, relate_vars, fp_vars, report_vars>>

InitFileCluster ==
  /\ Idle
  /\ pc = "cluster_files"
  /\ \E h \in [Range(ClusterFileNames) -> NameSets] :
       call = [op |-> "cluster_files", file_to_headers |-> h,
               unassigned |-> DOMAIN h, clusters |-> <<>>]

NextFileCluster == ClusterFilesRound

SpecFileCluster == InitFileCluster /\ [][NextFileCluster]_vars

\* The groups of a run as sets of files.
FilePartition(groups) == {Range(groups[i]) : i \in 1..Len(groups)}

\* The groups of the run that takes the files in the order of their names.
RECURSIVE InNameOrder(_, _)
InNameOrder(file_to_headers, unassigned) ==
  IF unassigned = {} THEN {}
  ELSE LET first == CHOOSE i \in 1..Len(ClusterFileNames) :
                      /\ ClusterFileNames[i] \in unassigned
                      /\ \A j \in 1..(i - 1) : ClusterFileNames[j] \notin unassigned
           seed  == ClusterFileNames[first]
           group == {seed} \cup ToAdd(file_to_headers, seed, unassigned)
       IN  {group} \cup InNameOrder(file_to_headers, unassigned \ group)

FilesClustered == pc = "cluster_files" /\ call.unassigned = {}

\* C30: the clustering of the files is deterministic: whatever order the set
\* unassigned is iterated in, the run ends with the same groups of files.
C30_FileClustersIndependentOfOrder ==
  FilesClustered =>
    FilePartition(call.clusters) = InNameOrder(call.file_to_headers, DOMAIN call.file_to_headers)

(***************************************************************************)
(* Wide sheets: the columns that are not profiled                          *)
(***************************************************************************)

\* The columns of the corpus left out of deep profiling: sheet s of file f is
\* wide and position i is not among its cols_to_profile.
ExcludedOf(d, f, s) ==
  LET sh == d[f].sheets[s]
  IN  IF IsWorkbook(d[f]) /\ Len(sh.header) > WIDE_COLS
      THEN Bind(Range(ColsToProfile(WorkbookRecord(d[f], sh), sh.cols)), LAMBDA kept :
             {<<f, s, i>> : i \in (1..Len(sh.header)) \ kept})
      ELSE {}

\* The columns of the whole corpus left out of deep profiling.
ExcludedColumns(d) ==
  UNION {UNION {ExcludedOf(d, f, s) : s \in 1..Len(d[f].sheets)} : f \in 1..Len(d)}

\* The corpus with one header cell changed.
Renamed(d, t, name) == [d EXCEPT ![t[1]].sheets[t[2]].header[t[3]] = name]

\* The canonical names Phase 1 and Phase 2 give for a corpus.
CanonicalNamesOf(d) ==
  LET keys == Distinct(AllNorms(Flatten([f \in 1..Len(d) |-> ScanRecords(d[f])])))
      m    == Merged(keys)
  IN  {Canon(m, k) : k \in Range(keys)}

\* C25: when a sheet is wide (more than 300 header columns) at most 200 of
\* its columns are deep-profiled, and a column left out contributes to no
\* downstream result: a corpus that differs only in the name of such a
\* column has the same canonical frequencies.
C25_ExcludedColumnsContributeNothing ==
  /\ \A i \in 1..Len(phase1) :
       (phase1[i].is_wide /\ Profiled(i)) =>
         Cardinality({p \in 1..Len(deep_profiles) :
                        Key(deep_profiles[p]) = Key(phase1[i])}) <= MAX_PROFILE_COLS
  /\ Merging =>
       \A t \in ExcludedColumns(disk) :
         \A name \in { <<"y","y">>, <<"z","z">> } :
           CanonicalNamesOf(Renamed(disk, t, name)) = DOMAIN canonical_freq

====
